---- MODULE Spec2Model ----
(***************************************************************************)
(* Model of the two command-line utilities of the repository:              *)
(*   src/skills/code-analysis/analyze.py  (CodeReadabilityAnalyzer)        *)
(*   src/skills/git-workflow/helpers.py   (git workflow helper)            *)
(*                                                                         *)
(* Text is modelled as Python sees it: a string is a sequence of           *)
(* one-character strings, and the string methods and regular expressions   *)
(* the code uses are operators over such sequences.                        *)
(***************************************************************************)
EXTENDS Integers, Sequences, FiniteSets, TLC

(***************************************************************************)
(* Python str primitives                                                   *)
(***************************************************************************)

\* A string literal as a sequence of characters.
Chars(s) == [i \in 1..Len(s) |-> SubSeq(s, i, i)]

CharSet(s) == {Chars(s)[i] : i \in 1..Len(s)}

\* str.isspace()/regex \s for the ASCII text the tools read.
Whitespace == {" ", "\t", "\n", "\r"}

LowerAlphabet == Chars("abcdefghijklmnopqrstuvwxyz")

UpperAlphabet == Chars("ABCDEFGHIJKLMNOPQRSTUVWXYZ")

LowerLetters == {LowerAlphabet[i] : i \in 1..Len(LowerAlphabet)}

UpperLetters == {UpperAlphabet[i] : i \in 1..Len(UpperAlphabet)}

DigitChars == CharSet("0123456789")

\* regex \w
WordChars == LowerLetters \cup UpperLetters \cup DigitChars \cup {"_"}

max(a, b) == IF a >= b THEN a ELSE b

min(a, b) == IF a <= b THEN a ELSE b

\* s[i:] and s[:i] with Python's 0-based slice bounds.
SliceFrom(s, i) == SubSeq(s, min(i, Len(s)) + 1, Len(s))

SliceTo(s, i) == SubSeq(s, 1, min(i, Len(s)))

\* Does p occur in s starting at (1-based) position i?
MatchesAt(s, p, i) ==
    /\ i >= 1
    /\ i + Len(p) - 1 <= Len(s)
    /\ SubSeq(s, i, i + Len(p) - 1) = p

\* str.startswith
startswith(s, p) == MatchesAt(s, p, 1)

\* `p in s` for a non-empty p
contains(s, p) == \E i \in 1..Len(s) : MatchesAt(s, p, i)

\* str.lower() on one character and on a string
LowerChar(c) ==
    IF c \in UpperLetters
    THEN LowerAlphabet[CHOOSE i \in 1..Len(UpperAlphabet) : UpperAlphabet[i] = c]
    ELSE c

lower(s) == [i \in 1..Len(s) |-> LowerChar(s[i])]

\* str.strip(): leading and trailing whitespace removed
strip(s) ==
    LET keep == {i \in 1..Len(s) : s[i] \notin Whitespace}
    IN  IF keep = {} THEN <<>>
        ELSE SubSeq(s, CHOOSE i \in keep : \A j \in keep : i <= j,
                       CHOOSE i \in keep : \A j \in keep : i >= j)

\* str.count(p): non-overlapping occurrences, scanning from the left
RECURSIVE CountFrom(_, _, _)
CountFrom(s, p, i) ==
    IF i + Len(p) - 1 > Len(s) THEN 0
    ELSE IF MatchesAt(s, p, i) THEN 1 + CountFrom(s, p, i + Len(p))
    ELSE CountFrom(s, p, i + 1)

count(s, p) == CountFrom(s, p, 1)

\* str.replace(old, new): every non-overlapping occurrence, from the left
RECURSIVE ReplaceFrom(_, _, _, _)
ReplaceFrom(s, old, new, i) ==
    IF i > Len(s) THEN <<>>
    ELSE IF MatchesAt(s, old, i) THEN new \o ReplaceFrom(s, old, new, i + Len(old))
    ELSE <<s[i]>> \o ReplaceFrom(s, old, new, i + 1)

replace(s, old, new) == ReplaceFrom(s, old, new, 1)

\* The members of a finite set of integers in increasing order.
RECURSIVE SortedSeq(_)
SortedSeq(S) ==
    IF S = {} THEN <<>>
    ELSE LET m == CHOOSE x \in S : \A y \in S : x <= y
         IN  <<m>> \o SortedSeq(S \ {m})

\* str.split(sep) for a one-character separator: the pieces between the
\* separators, always at least one piece.
split(s, sep) ==
    LET cuts == <<0>> \o SortedSeq({i \in 1..Len(s) : s[i] = sep}) \o <<Len(s) + 1>>
    IN  [n \in 1..(Len(cuts) - 1) |-> SubSeq(s, cuts[n] + 1, cuts[n + 1] - 1)]

\* str.split() without argument: runs of whitespace separate, no empty pieces
RECURSIVE SplitWs(_, _, _)
SplitWs(s, i, cur) ==
    IF i > Len(s) THEN (IF cur = <<>> THEN <<>> ELSE <<cur>>)
    ELSE IF s[i] \in Whitespace
         THEN (IF cur = <<>> THEN <<>> ELSE <<cur>>) \o SplitWs(s, i + 1, <<>>)
    ELSE SplitWs(s, i + 1, Append(cur, s[i]))

split_whitespace(s) == SplitWs(s, 1, <<>>)

\* "\n".join(lines)
RECURSIVE join_lines(_)
join_lines(ls) ==
    IF ls = <<>> THEN <<>>
    ELSE IF Len(ls) = 1 THEN ls[1]
    ELSE ls[1] \o <<"\n">> \o join_lines(Tail(ls))

\* Concatenation of a sequence of sequences.
RECURSIVE Flatten(_)
Flatten(ss) == IF ss = <<>> THEN <<>> ELSE Head(ss) \o Flatten(Tail(ss))

\* Position after the run of whitespace that starts at i (regex \s*).
RECURSIVE SkipWs(_, _)
SkipWs(s, i) == IF i <= Len(s) /\ s[i] \in Whitespace THEN SkipWs(s, i + 1) ELSE i

\* Position after the run of word characters that starts at i (regex \w*).
RECURSIVE SkipWord(_, _)
SkipWord(s, i) == IF i <= Len(s) /\ s[i] \in WordChars THEN SkipWord(s, i + 1) ELSE i

\* regex \b at the gap before position i (1 <= i <= Len(s) + 1)
WordBoundary(s, i) ==
    LET before == i > 1 /\ s[i - 1] \in WordChars
        after  == i <= Len(s) /\ s[i] \in WordChars
    IN  before # after

(***************************************************************************)
(* analyze.py: constants                                                   *)
(***************************************************************************)

TECHNICAL_JARGON ==
    << "API", "REST", "CRUD", "DTO", "JSON", "XML", "HTTP", "SQL",
       "OAuth", "JWT", "PKCE", "async", "await", "promise", "callback",
       "middleware", "endpoint", "payload", "schema", "ORM", "migration",
       "refactor", "deprecated", "polymorphism", "inheritance", "instantiate",
       "serialize", "deserialize", "hydrate", "repository", "factory",
       "singleton", "dependency injection", "IoC", "webhook", "CORS" >>

\* Each pattern \b(stem|stem)(_|[A-Z]) is given by its stems.
CRYPTIC_ABBREVIATIONS ==
    << <<"usr">>, <<"tkn", "tok">>, <<"cfg", "conf">>, <<"ctx">>,
       <<"tmp", "temp">>, <<"idx">>, <<"cnt">>, <<"proc">>, <<"calc">> >>

SUPPORTED_EXTENSIONS ==
    [e \in {".py", ".js", ".ts", ".jsx", ".tsx", ".java", ".go", ".rb", ".php"} |->
        CASE e \in {".py"} -> "python"
          [] e \in {".js", ".jsx"} -> "javascript"
          [] e \in {".ts", ".tsx"} -> "typescript"
          [] e = ".java" -> "java"
          [] e = ".go" -> "go"
          [] e = ".rb" -> "ruby"
          [] e = ".php" -> "php"]

Strictness == {"lenient", "standard", "strict"}

\* Variant: findings carry the 0-based index of the line.
ReadabilityIssueZeroBased(line_num, issue_type, description, subject) ==
    [line_num |-> line_num - 1, issue_type |-> issue_type,
     description |-> description, subject |-> subject]

\* ReadabilityIssue: line number, category and message; `subject` is the
\* letter or term the message quotes.  Snippet and suggestion are display text.
ReadabilityIssue(line_num, issue_type, description, subject) ==
    [line_num |-> line_num, issue_type |-> issue_type,
     description |-> description, subject |-> subject]

(***************************************************************************)
(* analyze.py: the regular expressions of the scans                        *)
(***************************************************************************)

\* re.sub(r'"[^"]*"', '""', s) for quote character q: each leftmost quoted
\* run is replaced by the empty literal; an unclosed quote is left alone.
RECURSIVE SubQuoted(_, _, _)
SubQuoted(s, q, i) ==
    IF i > Len(s) THEN <<>>
    ELSE IF s[i] = q /\ \E j \in (i + 1)..Len(s) : s[j] = q
         THEN LET j == CHOOSE j \in (i + 1)..Len(s) :
                           s[j] = q /\ \A k \in (i + 1)..(j - 1) : s[k] # q
              IN  <<q, q>> \o SubQuoted(s, q, j + 1)
    ELSE <<s[i]>> \o SubQuoted(s, q, i + 1)

\* re.sub(marker + r'.*$', '', s): from the first marker to the end of the
\* line; the line's own final newline is not matched by `.` and stays.
SubToLineEnd(s, marker) ==
    IF ~contains(s, marker) THEN s
    ELSE LET i == CHOOSE i \in 1..Len(s) :
                      MatchesAt(s, marker, i) /\ \A j \in 1..(i - 1) : ~MatchesAt(s, marker, j)
             nl == {j \in i..Len(s) : s[j] = "\n"}
         IN  IF nl = {} THEN SubSeq(s, 1, i - 1)
             ELSE IF nl = {Len(s)} THEN SubSeq(s, 1, i - 1) \o <<"\n">>
             ELSE s

strip_strings_and_comments(line) ==
    LET a == SubQuoted(line, "\"", 1)
        b == SubQuoted(a, "'", 1)
        c == SubToLineEnd(b, Chars("#"))
    IN  SubToLineEnd(c, Chars("//"))

\* Number of matches of \b(stems)(_|[A-Z]) in s.
AbbreviationMatches(s, stems) ==
    Cardinality({i \in 1..Len(s) :
        /\ WordBoundary(s, i)
        /\ \E n \in 1..Len(stems) :
              /\ MatchesAt(s, Chars(stems[n]), i)
              /\ i + Len(stems[n]) <= Len(s)
              /\ s[i + Len(stems[n])] \in UpperLetters \cup {"_"}})

\* re.search(r'\b(for|while)\b', s)
HasLoopKeyword(s) ==
    \E kw \in {Chars("for"), Chars("while")} : \E i \in 1..Len(s) :
        WordBoundary(s, i) /\ MatchesAt(s, kw, i) /\ WordBoundary(s, i + Len(kw))

\* The letters matched by \b([a-z])\s*= in s, in order of position.
SingleLetterPositions(s) ==
    {i \in 1..Len(s) :
        /\ WordBoundary(s, i)
        /\ s[i] \in LowerLetters
        /\ SkipWs(s, i + 1) <= Len(s)
        /\ s[SkipWs(s, i + 1)] = "="}

\* stripped.startswith('#') or stripped.startswith('//')
IsHashOrSlashComment(stripped) ==
    startswith(stripped, Chars("#")) \/ startswith(stripped, Chars("//"))

\* re.sub(r'^[#/]+\s*', '', stripped)
RECURSIVE SkipMarkers(_, _)
SkipMarkers(s, i) == IF i <= Len(s) /\ s[i] \in {"#", "/"} THEN SkipMarkers(s, i + 1) ELSE i

CommentText(stripped) ==
    LET i == SkipMarkers(stripped, 1)
    IN  IF i = 1 THEN stripped ELSE SubSeq(stripped, SkipWs(stripped, i), Len(stripped))

\* re.search(r'\b' + re.escape(term) + r'\b', text)
WholeWordIn(text, term) ==
    \E i \in 1..Len(text) :
        WordBoundary(text, i) /\ MatchesAt(text, term, i) /\ WordBoundary(text, i + Len(term))

\* ^\s*keyword\s+\w+
KeywordDefinition(line, kw) ==
    LET i == SkipWs(line, 1)
        j == i + Len(kw)
        k == SkipWs(line, j)
    IN  MatchesAt(line, kw, i) /\ k > j /\ k <= Len(line) /\ line[k] \in WordChars

\* ^\s*const\s+\w+\s*=\s*\(.*\)\s*=>
ArrowDefinition(line) ==
    LET i == SkipWs(line, 1)
        j == i + 5
        k == SkipWs(line, j)
        m == SkipWord(line, k)
        n == SkipWs(line, m)
        p == SkipWs(line, n + 1)
    IN  /\ MatchesAt(line, Chars("const"), i)
        /\ k > j /\ m > k
        /\ n <= Len(line) /\ line[n] = "="
        /\ p <= Len(line) /\ line[p] = "("
        /\ \E q \in (p + 1)..Len(line) :
              /\ line[q] = ")"
              /\ \A r \in (p + 1)..(q - 1) : line[r] # "\n"
              /\ MatchesAt(line, Chars("=>"), SkipWs(line, q + 1))

\* How many of the four definition_patterns the line matches.
DefinitionPatternMatches(line) ==
    (IF KeywordDefinition(line, Chars("def")) THEN 1 ELSE 0)
    + (IF KeywordDefinition(line, Chars("class")) THEN 1 ELSE 0)
    + (IF KeywordDefinition(line, Chars("function")) THEN 1 ELSE 0)
    + (IF ArrowDefinition(line) THEN 1 ELSE 0)

(***************************************************************************)
(* analyze.py: the four scans.  Each returns the issues it appends to      *)
(* self.issues, in order.                                                  *)
(***************************************************************************)

Repeat(x, n) == [i \in 1..n |-> x]

RECURSIVE SumSeq(_)
SumSeq(ns) == IF ns = <<>> THEN 0 ELSE Head(ns) + SumSeq(Tail(ns))

TripleDouble == Chars("\"\"\"")

TripleSingle == Chars("'''")

HasTripleQuote(line) == contains(line, TripleDouble) \/ contains(line, TripleSingle)

\* in_docstring after a line that holds a triple quote (lines 189-200).
DocstringFlagAfter(line, in_docstring) ==
    IF ~in_docstring
    THEN LET docstring_marker ==
                 IF contains(line, TripleDouble) THEN TripleDouble ELSE TripleSingle
         IN  ~(count(line, docstring_marker) >= 2)
    ELSE FALSE

\* The issues of one checked code line (lines 210-247).
CrypticLineIssues(line_num, line) ==
    LET line_cleaned == strip_strings_and_comments(line)
        abbreviations ==
            SumSeq([n \in 1..Len(CRYPTIC_ABBREVIATIONS) |->
                        AbbreviationMatches(line_cleaned, CRYPTIC_ABBREVIATIONS[n])])
        positions == SortedSeq(SingleLetterPositions(line_cleaned))
        letters == SelectSeq([n \in 1..Len(positions) |-> line_cleaned[positions[n]]],
                             LAMBDA c : c \notin {"i", "j", "k"})
    IN  IF strip(line_cleaned) = <<>> THEN <<>>
        ELSE Repeat(ReadabilityIssue(line_num, "cryptic_naming",
                                     "unclear abbreviation", ""), abbreviations)
             \o (IF HasLoopKeyword(line_cleaned) THEN <<>>
                 ELSE [n \in 1..Len(letters) |->
                          ReadabilityIssue(line_num, "cryptic_naming",
                                           "single-letter variable", letters[n])])

RECURSIVE CrypticFrom(_, _, _)
CrypticFrom(lines, line_num, in_docstring) ==
    IF line_num > Len(lines) THEN <<>>
    ELSE LET line == lines[line_num]
         IN  IF HasTripleQuote(line)
             THEN CrypticFrom(lines, line_num + 1, DocstringFlagAfter(line, in_docstring))
             ELSE IF in_docstring
             THEN CrypticFrom(lines, line_num + 1, in_docstring)
             ELSE IF IsHashOrSlashComment(strip(line))
             THEN CrypticFrom(lines, line_num + 1, in_docstring)
             ELSE CrypticLineIssues(line_num, line)
                  \o CrypticFrom(lines, line_num + 1, in_docstring)

check_cryptic_names(lines) == CrypticFrom(lines, 1, FALSE)

\* Variant: lines that start with `/*` or `*` are not comments.
IsCommentLineHashOrSlash(stripped) ==
    \/ startswith(stripped, Chars("#"))
    \/ startswith(stripped, Chars("//"))

\* is_comment of _check_comments
IsCommentLine(stripped) ==
    \/ startswith(stripped, Chars("#"))
    \/ startswith(stripped, Chars("//"))
    \/ startswith(stripped, Chars("/*"))
    \/ startswith(stripped, Chars("*"))

\* The loop of _check_comments from line line_num on, with its three counters;
\* the ratio check follows the last line.  comment/code < 0.2 is decided on
\* the integers (5 * comment < code): the quotient of two small counts is
\* never within rounding distance of 0.2 unless it equals it.
\* (level is self.strictness, uncommented is uncommented_code_lines.)
RECURSIVE CommentsFrom(_, _, _, _, _, _)
CommentsFrom(lines, level, line_num, code_line_count, comment_line_count, uncommented) ==
    IF line_num > Len(lines)
    THEN IF code_line_count > 0 /\ 5 * comment_line_count < code_line_count
         THEN <<ReadabilityIssue(0, "insufficient_comments", "low comment ratio", "")>>
         ELSE <<>>
    ELSE LET stripped == strip(lines[line_num])
         IN  IF stripped = <<>>
             THEN CommentsFrom(lines, level, line_num + 1, code_line_count,
                               comment_line_count, uncommented)
             ELSE IF IsCommentLine(stripped)
             THEN CommentsFrom(lines, level, line_num + 1, code_line_count,
                               comment_line_count + 1, 0)
             ELSE IF uncommented + 1 > 10
                     /\ level \in {"standard", "strict"}
             THEN <<ReadabilityIssue(line_num, "missing_comments",
                                     "section without comments", "")>>
                  \o CommentsFrom(lines, level, line_num + 1,
                                  code_line_count + 1, comment_line_count, 0)
             ELSE CommentsFrom(lines, level, line_num + 1,
                               code_line_count + 1, comment_line_count,
                               uncommented + 1)

\* Variant: the count of uncommented lines starts at 1.
check_comments_count_from_one(lines, strictness_level) == CommentsFrom(lines, strictness_level, 1, 0, 0, 1)

check_comments(lines, strictness_level) == CommentsFrom(lines, strictness_level, 1, 0, 0, 0)

\* Variant: the markers are looked for without regard to case.
HasExplanationAnyCase(comment_text) ==
    \E marker \in {Chars("="), Chars(" is "), Chars(" means "), Chars(":")} :
        contains(lower(comment_text), marker)

\* any(marker in comment_text for marker in ['=', ' is ', ' means ', ':'])
HasExplanation(comment_text) ==
    \E marker \in {Chars("="), Chars(" is "), Chars(" means "), Chars(":")} :
        contains(comment_text, marker)

JargonLineIssues(line_num, line) ==
    LET stripped == strip(line)
        comment_text == CommentText(stripped)
        found == SelectSeq(TECHNICAL_JARGON,
                     LAMBDA jargon : WholeWordIn(lower(comment_text), lower(Chars(jargon))))
    IN  IF ~IsHashOrSlashComment(stripped) \/ HasExplanation(comment_text) THEN <<>>
        ELSE [n \in 1..Len(found) |->
                 ReadabilityIssue(line_num, "unexplained_jargon",
                                  "term without explanation", found[n])]

check_jargon_in_comments(lines) ==
    Flatten([n \in 1..Len(lines) |-> JargonLineIssues(n, lines[n])])

\* Variant: the window begins at the definition line.
MarkerInWindowFromDefinition(lines, line_num, marker) ==
    \E n \in line_num..min(Len(lines), line_num + 9) :
        contains(lower(lines[n]), Chars(marker))

\* Is `marker` in one of lines[line_num:min(len(lines), line_num + 10)]?
MarkerInWindow(lines, line_num, marker) ==
    \E n \in (line_num + 1)..min(Len(lines), line_num + 10) :
        contains(lower(lines[n]), Chars(marker))

\* The issues of one matching definition pattern (lines 367-415).
DefinitionIssues(lines, strictness_level, function_line) ==
    LET has_what == MarkerInWindow(lines, function_line, "what:")
        has_why  == MarkerInWindow(lines, function_line, "why:")
        has_how  == MarkerInWindow(lines, function_line, "how:")
        issue(d) == ReadabilityIssue(function_line, "missing_documentation", d, "")
    IN  IF strictness_level = "strict"
        THEN (IF has_what THEN <<>> ELSE <<issue("missing What")>>)
             \o (IF has_why THEN <<>> ELSE <<issue("missing Why")>>)
             \o (IF has_how THEN <<>> ELSE <<issue("missing How")>>)
        ELSE IF ~(has_what \/ has_why \/ has_how)
        THEN <<issue("lacks What/Why/How")>>
        ELSE <<>>

check_section_documentation(lines, strictness_level) ==
    Flatten([n \in 1..Len(lines) |->
        Flatten(Repeat(DefinitionIssues(lines, strictness_level, n),
                       DefinitionPatternMatches(lines[n])))])

(***************************************************************************)
(* analyze.py: score and summary                                           *)
(***************************************************************************)

\* Mutant: the weights of the two comment categories exchanged.
issue_weights_exchanged(issue_type) ==
    CASE issue_type = "cryptic_naming" -> 3
      [] issue_type = "missing_comments" -> 10
      [] issue_type = "insufficient_comments" -> 5
      [] issue_type = "unexplained_jargon" -> 4
      [] issue_type = "missing_documentation" -> 5
      [] OTHER -> 2

\* issue_weights.get(issue_type, 2)
issue_weights(issue_type) ==
    CASE issue_type = "cryptic_naming" -> 3
      [] issue_type = "missing_comments" -> 5
      [] issue_type = "insufficient_comments" -> 10
      [] issue_type = "unexplained_jargon" -> 4
      [] issue_type = "missing_documentation" -> 5
      [] OTHER -> 2

\* The loop `for issue in self.issues: score -= weight`.
RECURSIVE DeductIssues(_, _)
DeductIssues(score, issues_left) ==
    IF issues_left = <<>> THEN score
    ELSE DeductIssues(score - issue_weights(Head(issues_left).issue_type),
                      Tail(issues_left))

\* Mutant: the score is returned without the floor at 0.
calculate_score_unfloored(self_issues, total_lines) ==
    IF total_lines = 0 THEN 0
    ELSE DeductIssues(100, self_issues)

\* Mutant: no early return for a file without lines.
calculate_score_no_empty_case(self_issues, total_lines) ==
    max(0, DeductIssues(100, self_issues))

\* issue_density (line 432) is computed and never read.
calculate_readability_score(self_issues, total_lines) ==
    IF total_lines = 0 THEN 0
    ELSE max(0, DeductIssues(100, self_issues))

generate_summary(score) ==
    IF score >= 90 THEN "Excellent"
    ELSE IF score >= 75 THEN "Good"
    ELSE IF score >= 60 THEN "Moderate"
    ELSE IF score >= 40 THEN "Below average"
    ELSE "Poor"

(***************************************************************************)
(* analyze.py: the files analyze_file is called on                         *)
(***************************************************************************)

\* Longest generated file, in lines.
MaxFileLines == 2

\* Lines the generated files are built from: a code line with cryptic names
\* and a comment with two jargon terms.
LineCatalogue ==
    { Chars("usr_id = x = 5\n"),
      Chars("# call the REST API\n") }

RECURSIVE SeqsUpTo(_, _)
SeqsUpTo(S, n) ==
    IF n = 0 THEN {<<>>}
    ELSE LET shorter == SeqsUpTo(S, n - 1)
         IN  shorter \cup {Append(q, x) : q \in shorter, x \in S}

SourceFile(path, lines) ==
    [path |-> path, exists |-> TRUE, readable |-> TRUE, lines |-> lines]

GeneratedFiles == {SourceFile("sample.py", ls) : ls \in SeqsUpTo(LineCatalogue, MaxFileLines)}

\* Commented code, a documented function, an undocumented one, a long
\* uncommented section, whitespace only.
FixtureFiles ==
    { SourceFile("commented.py",
          << Chars("# add tax to the price\n"),
             Chars("total = price + tax\n") >>),
      SourceFile("documented.py",
          << Chars("def load(path):\n"),
             Chars("    \"\"\"\n"),
             Chars("    What: Read the price list\n"),
             Chars("    Why: Totals need prices\n"),
             Chars("    How: Parse each row\n"),
             Chars("    \"\"\"\n"),
             Chars("    return parse(path)\n") >>),
      SourceFile("handler.js",
          << Chars("// entry point\n"),
             Chars("function handle(request) {\n"),
             Chars("  return reply(request);\n"),
             Chars("}\n") >>),
      SourceFile("long.py", [n \in 1..12 |-> Chars("total = price + tax\n")]),
      SourceFile("blank.py", << Chars("\n"), Chars("   \n") >>) }

\* A missing file, one with an unsupported extension, one that cannot be
\* decoded, a missing one with an unsupported extension, and one that has
\* an unsupported extension and cannot be decoded.
ErrorFiles ==
    { [path |-> "missing.py", exists |-> FALSE, readable |-> FALSE, lines |-> <<>>],
      [path |-> "notes.txt", exists |-> TRUE, readable |-> TRUE,
       lines |-> <<Chars("usr_id = 5\n")>>],
      [path |-> "binary.py", exists |-> TRUE, readable |-> FALSE, lines |-> <<>>],
      [path |-> "missing.txt", exists |-> FALSE, readable |-> FALSE, lines |-> <<>>],
      [path |-> "binary.dat", exists |-> TRUE, readable |-> FALSE, lines |-> <<>>] }

Files == GeneratedFiles \cup FixtureFiles \cup ErrorFiles

(***************************************************************************)
(* analyze.py: the files the four scans are examined on                    *)
(***************************************************************************)

\* Longest generated file of the scans, in lines.
MaxScanLines == 2

\* The two triple quotes, a code line with cryptic names, a comment with two
\* jargon terms, a definition, a documentation line with a marker.
ScanCatalogue ==
    { Chars("\"\"\"\n"),
      Chars("'''\n"),
      Chars("usr_id = x = 5\n"),
      Chars("# call the REST API\n"),
      Chars("def load(path):\n"),
      Chars("    What: read the prices\n") }

GeneratedScanFiles ==
    {SourceFile("scan.py", ls) : ls \in SeqsUpTo(ScanCatalogue, MaxScanLines)}

CodeLine == Chars("total = price + tax\n")

\* Two full runs of uncommented code; a run with blank lines in it; runs
\* ended by block comments; comment ratios of 1/5 and 1/6; a triple quote
\* of the other style inside a documentation block; definitions with a
\* marker 10 and 11 lines below them and at the end of the file; comments
\* with and without jargon.
ScanFixtures ==
    { SourceFile("run22.py", [n \in 1..22 |-> CodeLine]),
      SourceFile("spaced.py",
          [n \in 1..13 |-> IF n \in {4, 9} THEN Chars("  \n") ELSE CodeLine]),
      SourceFile("reset.js",
          [n \in 1..22 |-> IF n = 11 THEN Chars("/* the totals\n")
                           ELSE IF n = 12 THEN Chars(" * of the order */\n")
                           ELSE CodeLine]),
      SourceFile("fifth.js",
          [n \in 1..6 |-> IF n = 1 THEN Chars("/* add tax to the price */\n") ELSE CodeLine]),
      SourceFile("sixth.py",
          [n \in 1..7 |-> IF n = 1 THEN Chars("# add tax to the price\n") ELSE CodeLine]),
      SourceFile("nested.py",
          << Chars("\"\"\"\n"),
             Chars("Quote text with ''' in examples\n"),
             Chars("usr_id = x = 5\n"),
             Chars("\"\"\"\n"),
             Chars("tmp_val = y = 1\n") >>),
      SourceFile("oneline.py",
          << Chars("\"\"\"Totals of an order\"\"\"\n"),
             Chars("usr_id = x = 5\n"),
             Chars("'''\n"),
             Chars("cfg_file = z = 2\n"),
             Chars("'''\n"),
             Chars("// tmp_dir = 1\n"),
             Chars("idx_max = 3\n") >>),
      SourceFile("window.py",
          [n \in 1..13 |-> IF n = 1 THEN Chars("def first():\n")
                           ELSE IF n = 2 THEN Chars("def second():\n")
                           ELSE IF n = 12 THEN Chars("    # WHY: totals need prices\n")
                           ELSE IF n = 13 THEN Chars("class Price:\n")
                           ELSE Chars("    pass\n")]),
      SourceFile("markers.js",
          << Chars("const load = (path) => {\n"),
             Chars("  // What: read the prices\n"),
             Chars("  // how: row by row\n"),
             Chars("}\n"),
             Chars("function save(path) {\n"),
             Chars("  // what: write, how: rows\n"),
             Chars("}\n") >>),
      SourceFile("jargon.js",
          << Chars("// REST and rest over JSON\n"),
             Chars("# the api_key is stored\n"),
             Chars("# ORM: maps rows to objects\n"),
             Chars("total = 1  # REST API\n"),
             Chars(" * uses the REST API\n"),
             Chars("#uses dependency injection\n"),
             Chars("// format the output\n"),
             Chars("/// the API means a contract\n"),
             Chars("# API IS the contract\n") >>) }

\* The files of the scans.
ScanFiles == GeneratedScanFiles \cup FixtureFiles \cup ScanFixtures

\* Path(file_path).suffix: from the last dot of the final component, unless
\* that dot is its first or last character.
suffix(path) ==
    LET p == Chars(path)
        slashes == {i \in 1..Len(p) : p[i] = "/"}
        start == IF slashes = {} THEN 1
                 ELSE 1 + CHOOSE i \in slashes : \A j \in slashes : j <= i
        dots == {i \in (start + 1)..(Len(p) - 1) : p[i] = "."}
    IN  IF dots = {} THEN <<>>
        ELSE SubSeq(p, CHOOSE i \in dots : \A j \in dots : j <= i, Len(p))

IsSupported(ext) == \E e \in DOMAIN SUPPORTED_EXTENSIONS : Chars(e) = ext

LanguageOf(ext) ==
    SUPPORTED_EXTENSIONS[CHOOSE e \in DOMAIN SUPPORTED_EXTENSIONS : Chars(e) = ext]

\* The issues the four scans append, in call order (lines 156-159).
RunChecks(lines, strictness_level) ==
    check_cryptic_names(lines)
    \o check_comments(lines, strictness_level)
    \o check_jargon_in_comments(lines)
    \o check_section_documentation(lines, strictness_level)

\* The scans depend on the lines and the strictness alone: their output is
\* tabulated once for the files of the model.
ScannedLines == {f.lines : f \in Files \cup ScanFiles}

ChecksTable ==
    [s \in Strictness |-> [ls \in ScannedLines |-> RunChecks(ls, s)]]

\* Mutant: the issues of the previous call are kept.
KeepIssues(self_issues) == self_issues

\* `self.issues = []` (line 153)
ResetIssues(self_issues) == <<>>

\* Mutant: the number of issues is passed where the number of lines belongs.
ScoreArgumentIssueCount(lines, self_issues) == Len(self_issues)

\* The argument analyze_file passes to _calculate_readability_score (line 162).
ScoreArgument(lines, self_issues) == Len(lines)

\* Variant: the extension is checked before the existence of the file.
analyze_file_extension_first(self_issues, strictness_level, file) ==
    IF ~IsSupported(suffix(file.path))
    THEN [issues |-> self_issues,
          ret |-> [error |-> <<"Unsupported file type", suffix(file.path)>>]]
    ELSE IF ~file.exists
    THEN [issues |-> self_issues, ret |-> [error |-> <<"File not found", file.path>>]]
    ELSE IF ~file.readable
    THEN [issues |-> self_issues, ret |-> [error |-> <<"Could not read file", file.path>>]]
    ELSE LET lines == file.lines
             found == ResetIssues(self_issues) \o ChecksTable[strictness_level][lines]
             score == calculate_readability_score(found, ScoreArgument(lines, found))
         IN  [issues |-> found,
              ret |-> [file |-> file.path,
                       language |-> LanguageOf(suffix(file.path)),
                       total_lines |-> Len(lines),
                       issues_found |-> Len(found),
                       readability_score |-> score,
                       issues |-> found,
                       summary |-> generate_summary(score)]]

\* analyze_file: the pair of self.issues after the call and the value returned.
analyze_file(self_issues, strictness_level, file) ==
    IF ~file.exists
    THEN [issues |-> self_issues, ret |-> [error |-> <<"File not found", file.path>>]]
    ELSE IF ~IsSupported(suffix(file.path))
    THEN [issues |-> self_issues,
          ret |-> [error |-> <<"Unsupported file type", suffix(file.path)>>]]
    ELSE IF ~file.readable
    THEN [issues |-> self_issues, ret |-> [error |-> <<"Could not read file", file.path>>]]
    ELSE LET lines == file.lines
             found == ResetIssues(self_issues) \o ChecksTable[strictness_level][lines]
             score == calculate_readability_score(found, ScoreArgument(lines, found))
         IN  [issues |-> found,
              ret |-> [file |-> file.path,
                       language |-> LanguageOf(suffix(file.path)),
                       total_lines |-> Len(lines),
                       issues_found |-> Len(found),
                       readability_score |-> score,
                       issues |-> found,
                       summary |-> generate_summary(score)]]

(***************************************************************************)
(* State                                                                   *)
(***************************************************************************)

VARIABLES
    strictness,     \* CodeReadabilityAnalyzer.strictness
    issues,         \* CodeReadabilityAnalyzer.issues
    analyzed,       \* the file of the last analyze_file call, or NoCall
    result,         \* what that call returned, or NoCall
    prev_issues,    \* self.issues when that call began
    prev_outcome,   \* how the call before it ended: "none", "ok" or "error"
    score_call,     \* last direct call of _calculate_readability_score, or NoCall
    diff_input,     \* the diff handed to analyze_diff
    diff_result,    \* what analyze_diff returned, or NoCall
    status_run,     \* what `git status --porcelain` gave run_git_command
    status_result,  \* what get_status returned, or NoCall
    branch_context, \* the context handed to suggest_branch_name
    branch_result,  \* what suggest_branch_name returned, or NoCall
    log_run,        \* what `git log` gave analyze_commit_history
    history_result, \* what analyze_commit_history returned, or NoCall
    repository,     \* main: where the process runs: work tree, git dir or outside
    args,           \* main: the parsed command line
    git_calls,      \* main: the git invocations made so far, with what each returned
    stderr,         \* main: what was printed to sys.stderr
    exit_status,    \* main: <<>> while it runs, then <<status>> as the process ended
    output          \* main: the value the action produced, or NoCall

vars ==
    <<strictness, issues, analyzed, result, prev_issues, prev_outcome, score_call,
      diff_input, diff_result, status_run, status_result,
      branch_context, branch_result, log_run, history_result,
      repository, args, git_calls, stderr, exit_status, output>>

branch_vars == <<branch_context, branch_result>>

history_vars == <<log_run, history_result>>

main_vars == <<repository, args, git_calls, stderr, exit_status, output>>

git_vars ==
    <<diff_input, diff_result, status_run, status_result,
      branch_vars, history_vars, main_vars>>

analyzer_vars == <<strictness, issues, analyzed, result, prev_issues, prev_outcome>>

\* The value of a variable that records a call, before any call.
NoCall == [called |-> FALSE]

IsError(r) == DOMAIN r = {"error"}

IsReport(r) == "readability_score" \in DOMAIN r

\* suggest_branch_name, analyze_commit_history, main have not been called.
BranchIdle ==
    /\ branch_context = NoCall
    /\ branch_result = NoCall

HistoryIdle ==
    /\ log_run = NoCall
    /\ history_result = NoCall

MainIdle ==
    /\ repository = "work tree"
    /\ args = NoCall
    /\ git_calls = <<>>
    /\ stderr = <<>>
    /\ exit_status = <<>>
    /\ output = NoCall

HelperIdle == BranchIdle /\ HistoryIdle /\ MainIdle

\* The git helper has not been called.
GitIdle ==
    /\ diff_input = NoCall
    /\ diff_result = NoCall
    /\ status_run = NoCall
    /\ status_result = NoCall
    /\ HelperIdle

\* An analyzer on which nothing has been called.
AnalyzerIdle ==
    /\ strictness = "standard"
    /\ issues = <<>>
    /\ analyzed = NoCall
    /\ result = NoCall
    /\ prev_issues = <<>>
    /\ prev_outcome = "none"
    /\ score_call = NoCall

(***************************************************************************)
(* Spec: one CodeReadabilityAnalyzer, any sequence of analyze_file calls   *)
(***************************************************************************)

\* CodeReadabilityAnalyzer(strictness): __init__ (lines 110-112)
Init ==
    /\ strictness \in Strictness
    /\ issues = <<>>
    /\ analyzed = NoCall
    /\ result = NoCall
    /\ prev_issues = <<>>
    /\ prev_outcome = "none"
    /\ score_call = NoCall
    /\ GitIdle

AnalyzeFile(file) ==
    LET out == analyze_file(issues, strictness, file)
    IN  /\ issues' = out.issues
        /\ result' = out.ret
        /\ analyzed' = file
        /\ prev_issues' = issues
        /\ prev_outcome' = IF result = NoCall THEN "none"
                           ELSE IF IsError(result) THEN "error" ELSE "ok"
        /\ UNCHANGED <<strictness, score_call>>
        /\ UNCHANGED git_vars

Next == \E file \in Files : AnalyzeFile(file)

Spec == Init /\ [][Next]_vars

(***************************************************************************)
(* SpecScan: the first analyze_file call on a new analyzer, for the files  *)
(* of the scans                                                            *)
(***************************************************************************)

ScanFile(file) ==
    /\ analyzed = NoCall
    /\ AnalyzeFile(file)

NextScan == \E file \in ScanFiles : ScanFile(file)

SpecScan == Init /\ [][NextScan]_vars

(***************************************************************************)
(* SpecScore: _calculate_readability_score as a function of self.issues    *)
(* and total_lines                                                         *)
(***************************************************************************)

\* Longest pattern of issue types, and how often it is repeated.
MaxPatternLen == 2

MaxRepeat == 11

\* Largest total_lines passed.
MaxTotalLines == 2

\* The five categories the scans produce and one they do not.
IssueTypes ==
    {"cryptic_naming", "missing_comments", "insufficient_comments",
     "unexplained_jargon", "missing_documentation", "style"}

ScoreIssueLists ==
    {Flatten(Repeat([n \in 1..Len(pattern) |-> ReadabilityIssue(n, pattern[n], "", "")], k)) :
        pattern \in SeqsUpTo(IssueTypes, MaxPatternLen), k \in 0..MaxRepeat}

InitScore ==
    /\ strictness = "standard"
    /\ issues \in ScoreIssueLists
    /\ analyzed = NoCall
    /\ result = NoCall
    /\ prev_issues = <<>>
    /\ prev_outcome = "none"
    /\ score_call = NoCall
    /\ GitIdle

CalculateScore(total_lines) ==
    /\ score_call' = [total_lines |-> total_lines,
                      score |-> calculate_readability_score(issues, total_lines)]
    /\ UNCHANGED analyzer_vars
    /\ UNCHANGED git_vars

NextScore == \E total_lines \in 0..MaxTotalLines : CalculateScore(total_lines)

SpecScore == InitScore /\ [][NextScore]_vars

(***************************************************************************)
(* helpers.py: analyze_diff                                                *)
(***************************************************************************)

\* Accumulators of analyze_diff after one more line (lines 136-150).
DiffStep(acc, line) ==
    IF startswith(line, Chars("diff --git"))
    THEN LET parts == split_whitespace(line)
         IN  IF Len(parts) >= 4
             THEN [acc EXCEPT !.files = Append(@, replace(parts[4], Chars("b/"), <<>>))]
             ELSE acc
    ELSE IF startswith(line, Chars("+")) /\ ~startswith(line, Chars("+++"))
    THEN [acc EXCEPT !.additions = @ + 1]
    ELSE IF startswith(line, Chars("-")) /\ ~startswith(line, Chars("---"))
    THEN [acc EXCEPT !.deletions = @ + 1]
    ELSE acc

RECURSIVE DiffLoop(_, _)
DiffLoop(acc, lines_left) ==
    IF lines_left = <<>> THEN acc
    ELSE DiffLoop(DiffStep(acc, Head(lines_left)), Tail(lines_left))

\* analyze_diff(diff_text); diff_text is None or a string.
analyze_diff(diff_text) ==
    IF diff_text.is_none \/ diff_text.text = <<>>
    THEN [files |-> <<>>, additions |-> 0, deletions |-> 0]
    ELSE LET acc == DiffLoop([files |-> <<>>, additions |-> 0, deletions |-> 0],
                             split(diff_text.text, "\n"))
         IN  [files |-> acc.files,
              additions |-> acc.additions,
              deletions |-> acc.deletions,
              total_changes |-> acc.additions + acc.deletions]

(***************************************************************************)
(* The diffs analyze_diff is called on.  A diff is written as git writes   *)
(* it, patch by patch; the model keeps, beside the text, what each line    *)
(* of it is.                                                               *)
(***************************************************************************)

\* Most patches in a generated diff, and most lines in the hunk of a patch.
MaxDiffFiles == 2

MaxHunkLines == 2

\* A line of a diff: what it is, its text and, for a `diff --git` line, the path.
DiffLine(kind, text) == [kind |-> kind, path |-> <<>>, text |-> Chars(text)]

\* Hunk lines: context, an added and a deleted line, and an added and a
\* deleted line whose own text begins with `++` and `--`.
HunkLineCatalogue ==
    { DiffLine("context", " if (condition) {"),
      DiffLine("added", "+  console.log('new');"),
      DiffLine("deleted", "-  console.log('old');"),
      DiffLine("added", "+++counter;"),
      DiffLine("deleted", "---counter;") }

DiffPaths == {"test.js", "lib/util.py"}

\* The lines git writes for one changed file.
PatchLines(path, hunk) ==
    << [kind |-> "git_header", path |-> Chars(path),
        text |-> Chars("diff --git a/") \o Chars(path) \o Chars(" b/") \o Chars(path)],
       DiffLine("index", "index 123..456 789"),
       [kind |-> "old_file", path |-> <<>>, text |-> Chars("--- a/") \o Chars(path)],
       [kind |-> "new_file", path |-> <<>>, text |-> Chars("+++ b/") \o Chars(path)],
       DiffLine("hunk", "@@ -1,3 +1,5 @@") >> \o hunk

Patches == {PatchLines(path, hunk) :
                path \in DiffPaths,
                hunk \in SeqsUpTo(HunkLineCatalogue, MaxHunkLines) \ {<<>>}}

\* The text of a diff: its lines, each ended by a newline.
DiffText(diff_lines) == Flatten([n \in 1..Len(diff_lines) |-> diff_lines[n].text \o <<"\n">>])

\* sample_diff of the self-test (lines 696-706); its last line has no newline.
SampleDiffLines ==
    << [kind |-> "git_header", path |-> Chars("test.js"),
        text |-> Chars("diff --git a/test.js b/test.js")],
       DiffLine("index", "index 123..456 789"),
       DiffLine("old_file", "--- a/test.js"),
       DiffLine("new_file", "+++ b/test.js"),
       DiffLine("hunk", "@@ -1,3 +1,5 @@"),
       DiffLine("added", "+// New comment"),
       DiffLine("context", " if (condition) {"),
       DiffLine("deleted", "-  console.log('old');"),
       DiffLine("added", "+  console.log('new');"),
       DiffLine("added", "+  return true;"),
       DiffLine("context", " }") >>

SampleDiff ==
    [is_none |-> FALSE, lines |-> SampleDiffLines,
     text |-> join_lines([n \in 1..Len(SampleDiffLines) |-> SampleDiffLines[n].text])]

DiffInputs ==
    { [is_none |-> TRUE, lines |-> <<>>, text |-> <<>>],
      [is_none |-> FALSE, lines |-> <<>>, text |-> <<>>],
      SampleDiff }
    \cup { [is_none |-> FALSE, lines |-> Flatten(patches), text |-> DiffText(Flatten(patches))] :
             patches \in SeqsUpTo(Patches, MaxDiffFiles) \ {<<>>} }

(***************************************************************************)
(* SpecDiff: analyze_diff on each of these diffs                           *)
(***************************************************************************)

InitDiff ==
    /\ AnalyzerIdle
    /\ diff_input \in DiffInputs
    /\ diff_result = NoCall
    /\ status_run = NoCall
    /\ status_result = NoCall
    /\ HelperIdle

AnalyzeDiff ==
    /\ diff_result = NoCall
    /\ diff_result' = analyze_diff(diff_input)
    /\ UNCHANGED <<diff_input, status_run, status_result>>
    /\ UNCHANGED <<branch_vars, history_vars, main_vars>>
    /\ UNCHANGED analyzer_vars
    /\ UNCHANGED score_call

NextDiff == AnalyzeDiff

SpecDiff == InitDiff /\ [][NextDiff]_vars

(***************************************************************************)
(* helpers.py: get_status                                                  *)
(***************************************************************************)

EmptyStatus == [modified |-> <<>>, added |-> <<>>, deleted |-> <<>>, untracked |-> <<>>]

\* status after one more line of the output (lines 94-113).
StatusStep(status, line) ==
    IF line = <<>> THEN status
    ELSE LET status_code == SliceTo(line, 2)
             filename == strip(SliceFrom(line, 3))
         IN  IF status_code[1] = "M" \/ status_code[2] = "M"
             THEN [status EXCEPT !.modified = Append(@, filename)]
             ELSE IF status_code[1] = "A"
             THEN [status EXCEPT !.added = Append(@, filename)]
             ELSE IF status_code[1] = "D" \/ status_code[2] = "D"
             THEN [status EXCEPT !.deleted = Append(@, filename)]
             ELSE IF status_code = Chars("??")
             THEN [status EXCEPT !.untracked = Append(@, filename)]
             ELSE status

RECURSIVE StatusLoop(_, _)
StatusLoop(status, lines_left) ==
    IF lines_left = <<>> THEN status
    ELSE StatusLoop(StatusStep(status, Head(lines_left)), Tail(lines_left))

\* get_status, given what run_git_command(['status', '--porcelain']) returned.
get_status(run) ==
    IF ~run.success THEN EmptyStatus
    ELSE StatusLoop(EmptyStatus, split(strip(run.stdout), "\n"))

(***************************************************************************)
(* What `git status --porcelain` prints: one line `XY filename` per entry  *)
(***************************************************************************)

\* Most entries in a generated status output.
MaxStatusLines == 2

\* Index and worktree status X and Y; ` A` is an intent-to-add entry, `UU`
\* an unmerged one.
StatusCodes ==
    {"M ", " M", "MM", "A ", "AM", "AD", " A", "D ", " D", "MD", "??", "UU"}

StatusFilenames == {"foo.py", "bar.py"}

StatusEntries == [code : StatusCodes, filename : StatusFilenames]

PorcelainText(entries) ==
    Flatten([n \in 1..Len(entries) |->
        Chars(entries[n].code) \o <<" ">> \o Chars(entries[n].filename) \o <<"\n">>])

\* run_git_command: the command ran and exited 0 with this output, or it
\* failed (non-zero exit, timeout, exception).
StatusRuns ==
    { [success |-> TRUE, stdout |-> PorcelainText(entries), stderr |-> <<>>,
       entries |-> entries] : entries \in SeqsUpTo(StatusEntries, MaxStatusLines) }
    \cup { [success |-> FALSE, stdout |-> <<>>, stderr |-> Chars("Command timed out"),
            entries |-> <<>>] }

InitStatus ==
    /\ AnalyzerIdle
    /\ diff_input = NoCall
    /\ diff_result = NoCall
    /\ status_run \in StatusRuns
    /\ status_result = NoCall
    /\ HelperIdle

GetStatus ==
    /\ status_result = NoCall
    /\ status_result' = get_status(status_run)
    /\ UNCHANGED <<diff_input, diff_result, status_run>>
    /\ UNCHANGED <<branch_vars, history_vars, main_vars>>
    /\ UNCHANGED analyzer_vars
    /\ UNCHANGED score_call

NextStatus == GetStatus

SpecStatus == InitStatus /\ [][NextStatus]_vars

(***************************************************************************)
(* helpers.py: analyze_commit_history                                      *)
(***************************************************************************)

\* vague_patterns (lines 403-404): each pattern is `^` and a literal, with
\* or without `$`.
vague_patterns ==
    << [literal |-> "wip", to_end |-> TRUE],
       [literal |-> "fix", to_end |-> TRUE],
       [literal |-> "update", to_end |-> TRUE],
       [literal |-> "change", to_end |-> FALSE],
       [literal |-> "test", to_end |-> TRUE],
       [literal |-> "temp", to_end |-> FALSE],
       [literal |-> "asdf", to_end |-> FALSE],
       [literal |-> ".", to_end |-> FALSE] >>

\* re.search(pattern, s) for one of these patterns; `$` matches at the end
\* of s and before a newline that ends s.
SearchVaguePattern(pattern, s) ==
    /\ startswith(s, Chars(pattern.literal))
    /\ pattern.to_end =>
          SliceFrom(s, Len(pattern.literal)) \in {<<>>, <<"\n">>}

\* Variant: the subject is matched as written.
MatchedSubjectAsWritten(message) == message

\* The subject a commit message is matched as (line 406).
MatchedSubject(message) == lower(message)

\* Does the loop over vague_patterns reach a matching pattern (lines 405-414)?
\* The loop ends at the first match, so at most one finding is appended.
IsVagueMessage(message) ==
    \E n \in 1..Len(vague_patterns) :
        SearchVaguePattern(vague_patterns[n], MatchedSubject(message))

\* Position after the run of digits that starts at i (regex \d+).
RECURSIVE SkipDigits(_, _)
SkipDigits(s, i) == IF i <= Len(s) /\ s[i] \in DigitChars THEN SkipDigits(s, i + 1) ELSE i

\* int() of a string of decimal digits
RECURSIVE ParseInt(_)
ParseInt(digits) ==
    IF digits = <<>> THEN 0
    ELSE LET last == digits[Len(digits)]
             value == CHOOSE v \in 0..9 : Chars("0123456789")[v + 1] = last
         IN  10 * ParseInt(SubSeq(digits, 1, Len(digits) - 1)) + value

\* files_changed from the stats line (lines 382-386):
\* re.search(r'(\d+) file', stats_line), leftmost match, 0 without a match.
FilesChangedIn(stats_line) ==
    LET starts == {p \in 1..Len(stats_line) :
                      /\ stats_line[p] \in DigitChars
                      /\ MatchesAt(stats_line, Chars(" file"), SkipDigits(stats_line, p))}
    IN  IF starts = {} THEN 0
        ELSE LET p == CHOOSE p \in starts : \A q \in starts : p <= q
             IN  ParseInt(SubSeq(stats_line, p, SkipDigits(stats_line, p) - 1))

\* Variant: a commit of 20 files is large already.
IsLargeCommitFrom20(files_changed) == files_changed >= 20

\* The threshold tests of issues 2 and 3 (lines 418 and 428).
IsLargeCommit(files_changed) == files_changed > 20

IsShortMessage(message) == Len(message) < 10

HistoryIssue(commit_hash, type, description, suggestion) ==
    [commit |-> commit_hash, type |-> type, description |-> description,
     suggestion |-> suggestion]

\* The findings appended for one commit, in order (lines 399-434).
CommitIssues(commit_hash, message, files_changed) ==
    (IF IsVagueMessage(message)
     THEN <<HistoryIssue(commit_hash, "vague_message",
                         <<"Commit message too vague", message>>,
                         "Use descriptive messages that explain what and why")>>
     ELSE <<>>)
    \o (IF IsLargeCommit(files_changed)
        THEN <<HistoryIssue(commit_hash, "large_commit",
                            <<"Commit modified files", files_changed>>,
                            "Consider breaking large commits into smaller, focused ones")>>
        ELSE <<>>)
    \o (IF IsShortMessage(message)
        THEN <<HistoryIssue(commit_hash, "short_message",
                            <<"Very short commit message", message>>,
                            "Add more context about what changed and why")>>
        ELSE <<>>)

\* The while loop over the log lines (lines 365-437); i is the 0-based
\* index of the code, acc holds commits and issues.
RECURSIVE HistoryLoop(_, _, _)
HistoryLoop(lines, i, acc) ==
    IF ~(i < Len(lines)) THEN acc
    ELSE LET parts == split(lines[i + 1], "|")
         IN  IF contains(lines[i + 1], <<"|">>) /\ Len(parts) >= 4
             THEN LET commit_hash == SliceTo(parts[1], 7)
                      message == parts[2]
                      has_stats == /\ i + 1 < Len(lines)
                                   /\ contains(lines[i + 2], Chars("file"))
                      files_changed == IF has_stats THEN FilesChangedIn(lines[i + 2]) ELSE 0
                      commit == [hash |-> commit_hash, message |-> message,
                                 author |-> parts[3], time |-> parts[4],
                                 files_changed |-> files_changed]
                  IN  HistoryLoop(lines, (IF has_stats THEN i + 1 ELSE i) + 1,
                          [commits |-> Append(acc.commits, commit),
                           issues |-> acc.issues
                                      \o CommitIssues(commit_hash, message, files_changed)])
             ELSE HistoryLoop(lines, i + 1, acc)

\* analyze_commit_history, given what check_git_repository() returned and
\* what run_git_command(['log', ...]) returned.
analyze_commit_history(in_repository, run) ==
    IF ~in_repository THEN [error |-> "Not in a Git repository"]
    ELSE IF ~run.success
    THEN [error |-> "Failed to get commit history", details |-> run.stderr]
    ELSE LET acc == HistoryLoop(split(strip(run.stdout), "\n"), 0,
                                [commits |-> <<>>, issues |-> <<>>])
         IN  [commits_analyzed |-> Len(acc.commits),
              commits |-> acc.commits,
              issues_found |-> Len(acc.issues),
              issues |-> acc.issues,
              summary |-> <<"Analyzed", Len(acc.commits), "commits, found",
                            Len(acc.issues), "potential issues">>]

(***************************************************************************)
(* What `git log -N --pretty=format:%H|%s|%an|%ar --shortstat` prints: a   *)
(* line per commit, followed, when the commit changed files, by its stat   *)
(* line and an empty line.                                                 *)
(***************************************************************************)

\* Most commits in a generated log.
MaxLogCommits == 2

CommitHashes ==
    << "d4ce6b3c333b54e7835f22d201dc39fb97f4bf2b",
       "5f73667f152b662ce9ff59649f26f750f616d12d",
       "37eecedde2a744f02c5e440d4be5ca7037d8ce52",
       "c31a886ac4b35203e4c6f50885ea3ab52e9b555b",
       "b36126c2a7c69a312a71b6d525fd69e342315675",
       "745f33583d457f065070de30a835d9941c635357" >>

\* Subjects: vague and short; vague in upper case; vague by its beginning;
\* vague and ten characters long; short only; neither, naming files.
LogSubjects ==
    {"wip", "Fix", "changed the parser", ".gitignore", "Add login",
     "add 25 files to the list"}

\* Files a commit changed; 0 for a commit without changes (no stat line).
LogFileCounts == {0, 20, 21}

LogCommits == [subject : LogSubjects, files : LogFileCounts]

\* n in decimal
RECURSIVE Decimal(_)
Decimal(n) ==
    IF n < 10 THEN <<Chars("0123456789")[n + 1]>>
    ELSE Decimal(n \div 10) \o <<Chars("0123456789")[(n % 10) + 1]>>

\* The --shortstat line of a commit that changed `files` files.
ShortstatLine(files) ==
    <<" ">> \o Decimal(files)
    \o Chars(IF files = 1 THEN " file changed" ELSE " files changed")
    \o Chars(", 1 insertion(+)")

\* The text git writes for the n-th commit of the log.
LogEntryText(n, commit) ==
    Chars(CommitHashes[n]) \o <<"|">> \o Chars(commit.subject)
    \o Chars("|Ann Lee|2 days ago")
    \o (IF commit.files = 0 THEN <<>>
        ELSE <<"\n">> \o ShortstatLine(commit.files) \o <<"\n">>)

\* Entries are separated by a newline.
LogText(commits) == join_lines([n \in 1..Len(commits) |-> LogEntryText(n, commits[n])])

\* A log as recorded on the repository of the self-test machine: a subject
\* with a `|`, single-file commits, and the remaining vague patterns.
FixtureLogs ==
    { << [subject |-> "Update", files |-> 1],
         [subject |-> "a|b pipe", files |-> 0],
         [subject |-> "add 25 files to the list", files |-> 0],
         [subject |-> "fix", files |-> 2],
         [subject |-> "wip", files |-> 0],
         [subject |-> "first commit with a file", files |-> 1] >>,
      << [subject |-> "test", files |-> 0],
         [subject |-> "testing the parser", files |-> 3],
         [subject |-> "Temporary hack", files |-> 30],
         [subject |-> "asdf", files |-> 1],
         [subject |-> "update", files |-> 0],
         [subject |-> "Updated the docs", files |-> 1] >> }

\* What run_git_command returned for the log: success with the text, or a
\* failure; commits records what the text was written from.
LogRuns ==
    { [success |-> TRUE, stdout |-> LogText(commits), stderr |-> <<>>, commits |-> commits] :
          commits \in SeqsUpTo(LogCommits, MaxLogCommits) \cup FixtureLogs }
    \cup { [success |-> FALSE, stdout |-> <<>>, stderr |-> Chars(message), commits |-> <<>>] :
              message \in {"Command timed out",
                           "fatal: your current branch 'main' does not have any commits yet"} }

\* The calls of analyze_commit_history: inside a repository with each of
\* the logs, and outside one, where git log is not run.
HistoryCalls ==
    {[in_repository |-> TRUE, log |-> run] : run \in LogRuns}
    \cup {[in_repository |-> FALSE,
            log |-> [success |-> FALSE, stdout |-> <<>>, stderr |-> <<>>, commits |-> <<>>]]}

(***************************************************************************)
(* SpecHistory: analyze_commit_history on each of these logs               *)
(***************************************************************************)

InitHistory ==
    /\ AnalyzerIdle
    /\ diff_input = NoCall
    /\ diff_result = NoCall
    /\ status_run = NoCall
    /\ status_result = NoCall
    /\ BranchIdle
    /\ log_run \in HistoryCalls
    /\ history_result = NoCall
    /\ MainIdle

AnalyzeCommitHistory ==
    /\ history_result = NoCall
    /\ history_result' = analyze_commit_history(log_run.in_repository, log_run.log)
    /\ UNCHANGED <<diff_input, diff_result, status_run, status_result, log_run>>
    /\ UNCHANGED <<branch_vars, main_vars>>
    /\ UNCHANGED analyzer_vars
    /\ UNCHANGED score_call

NextHistory == AnalyzeCommitHistory

SpecHistory == InitHistory /\ [][NextHistory]_vars

(***************************************************************************)
(* helpers.py: suggest_branch_name                                         *)
(***************************************************************************)

UsageHint ==
    Chars("Usage: Provide context like 'adding search feature' or 'fix login bug'")

\* Variant: refactor keywords are tested before fix keywords.
branch_keywords_refactor_first ==
    << [branch_type |-> "refactor",
        words |-> <<"refactor", "cleanup", "improve", "simplify">>],
       [branch_type |-> "fix", words |-> <<"fix", "bug", "error", "issue", "broken">>],
       [branch_type |-> "test", words |-> <<"test", "testing">>],
       [branch_type |-> "docs", words |-> <<"doc", "docs", "documentation", "readme">>] >>

\* The if/elif chain of lines 304-311: branch type and keyword list, in order.
branch_keywords ==
    << [branch_type |-> "fix", words |-> <<"fix", "bug", "error", "issue", "broken">>],
       [branch_type |-> "refactor",
        words |-> <<"refactor", "cleanup", "improve", "simplify">>],
       [branch_type |-> "test", words |-> <<"test", "testing">>],
       [branch_type |-> "docs", words |-> <<"doc", "docs", "documentation", "readme">>] >>

\* any(word in normalized for word in words)
AnyWordIn(words, normalized) ==
    \E n \in 1..Len(words) : contains(normalized, Chars(words[n]))

\* branch_type after the chain (lines 303-311).
BranchType(normalized) ==
    LET matching == {n \in 1..Len(branch_keywords) :
                        AnyWordIn(branch_keywords[n].words, normalized)}
    IN  IF matching = {} THEN "feature"
        ELSE branch_keywords[CHOOSE n \in matching : \A k \in matching : n <= k].branch_type

remove_words ==
    {"the", "a", "an", "is", "are", "was", "were", "be", "been",
     "being", "have", "has", "had", "do", "does", "did", "will",
     "would", "should", "could", "may", "might", "must", "can",
     "add", "adding", "fix", "fixing", "update", "updating"}

\* [w for w in words if w not in remove_words and len(w) > 2]
FilterWords(words) ==
    SelectSeq(words, LAMBDA w : (\A r \in remove_words : w # Chars(r)) /\ Len(w) > 2)

\* Variant: every filtered word is kept.
FirstWordsAll(filtered_words) == filtered_words

\* filtered_words[:5]
FirstWords(filtered_words) == SubSeq(filtered_words, 1, min(5, Len(filtered_words)))

\* '-'.join(words)
RECURSIVE JoinHyphen(_)
JoinHyphen(words) ==
    IF words = <<>> THEN <<>>
    ELSE IF Len(words) = 1 THEN words[1]
    ELSE words[1] \o <<"-">> \o JoinHyphen(Tail(words))

\* re.sub(r'[^a-z0-9-]', '', s)
RemoveSpecialChars(s) ==
    SelectSeq(s, LAMBDA c : c \in LowerLetters \cup DigitChars \cup {"-"})

\* Variant: the empty context is classified like any other.
suggest_branch_name_no_usage(context) ==
    LET normalized == strip(lower(context))
        branch_name_part ==
            RemoveSpecialChars(JoinHyphen(FirstWords(FilterWords(split_whitespace(normalized)))))
    IN  Chars(BranchType(normalized)) \o <<"/">> \o branch_name_part

suggest_branch_name(context) ==
    IF context = <<>> THEN UsageHint
    ELSE LET normalized == strip(lower(context))
             branch_name_part ==
                 RemoveSpecialChars(
                     JoinHyphen(FirstWords(FilterWords(split_whitespace(normalized)))))
         IN  Chars(BranchType(normalized)) \o <<"/">> \o branch_name_part

(***************************************************************************)
(* The contexts suggest_branch_name is called on                           *)
(***************************************************************************)

\* Most words in a generated context.
MaxContextWords == 3

\* Keywords of the four classes, one of them in upper case and one inside a
\* longer word, a stop word, a word of two letters, a word with characters
\* no branch name keeps.
ContextWords ==
    {"fix", "Broken", "refactor", "testing", "readme", "the", "UI", "log-in!"}

RECURSIVE JoinSpace(_)
JoinSpace(words) ==
    IF words = <<>> THEN <<>>
    ELSE IF Len(words) = 1 THEN Chars(words[1])
    ELSE Chars(words[1]) \o <<" ">> \o JoinSpace(Tail(words))

\* test_contexts of the self-test (lines 679-684)
test_contexts ==
    { "adding search feature",
      "fix broken login button",
      "refactor authentication code",
      "update readme documentation" }

\* Only whitespace; irregular whitespace; more than five words that are
\* kept; a word of nothing but special characters; a keyword inside a word.
FixtureContexts ==
    { "   ",
      "  Fix   the\tLogin  Bug ",
      "simplify parser lexer printer loader writer reader",
      "handle ??? in C++ paths",
      "latest prefix table" }

BranchContexts ==
    {JoinSpace(words) : words \in SeqsUpTo(ContextWords, MaxContextWords)}
    \cup {Chars(c) : c \in test_contexts \cup FixtureContexts}

(***************************************************************************)
(* SpecBranch: suggest_branch_name on each of these contexts               *)
(***************************************************************************)

InitBranch ==
    /\ AnalyzerIdle
    /\ diff_input = NoCall
    /\ diff_result = NoCall
    /\ status_run = NoCall
    /\ status_result = NoCall
    /\ branch_context \in BranchContexts
    /\ branch_result = NoCall
    /\ HistoryIdle
    /\ MainIdle

SuggestBranchName ==
    /\ branch_result = NoCall
    /\ branch_result' = suggest_branch_name(branch_context)
    /\ UNCHANGED <<diff_input, diff_result, status_run, status_result, branch_context>>
    /\ UNCHANGED <<history_vars, main_vars>>
    /\ UNCHANGED analyzer_vars
    /\ UNCHANGED score_call

NextBranch == SuggestBranchName

SpecBranch == InitBranch /\ [][NextBranch]_vars

(***************************************************************************)
(* helpers.py: run_git_command and the operations built on it              *)
(***************************************************************************)

\* What subprocess.run(['git'] + command, ..., timeout=10) does: it
\* completes with an exit status and the two captured streams, it raises
\* TimeoutExpired, or it raises another exception.
Completed(returncode, stdout, stderr_text) ==
    [kind |-> "completed", returncode |-> returncode, stdout |-> stdout,
     stderr |-> stderr_text]

TimeoutExpired == [kind |-> "timeout"]

Raised(message) == [kind |-> "exception", message |-> Chars(message)]

\* Variant: a timeout is returned as a success without output.
run_git_command_timeout_succeeds(proc) ==
    IF proc.kind = "completed"
    THEN [success |-> proc.returncode = 0, stdout |-> proc.stdout, stderr |-> proc.stderr]
    ELSE IF proc.kind = "timeout"
    THEN [success |-> TRUE, stdout |-> <<>>, stderr |-> <<>>]
    ELSE [success |-> FALSE, stdout |-> <<>>, stderr |-> proc.message]

\* run_git_command: the tuple (success, stdout, stderr) it returns.
run_git_command(proc) ==
    IF proc.kind = "completed"
    THEN [success |-> proc.returncode = 0, stdout |-> proc.stdout, stderr |-> proc.stderr]
    ELSE IF proc.kind = "timeout"
    THEN [success |-> FALSE, stdout |-> <<>>, stderr |-> Chars("Command timed out")]
    ELSE [success |-> FALSE, stdout |-> <<>>, stderr |-> proc.message]

\* One call of run_git_command as main's record of it.
GitCall(command, proc) ==
    [command |-> command, proc |-> proc, returned |-> run_git_command(proc)]

\* check_git_repository, given the tuple of `git rev-parse --git-dir`.
check_git_repository(run) == run.success

\* get_staged_changes, given the tuple of `git diff --cached`; None or a string.
get_staged_changes(run) ==
    IF run.success /\ run.stdout # <<>>
    THEN [is_none |-> FALSE, text |-> run.stdout]
    ELSE [is_none |-> TRUE, text |-> <<>>]

\* staged_files of review_staged_changes (lines 188-196).
StagedFiles(run) ==
    IF ~run.success THEN <<>>
    ELSE LET lines == split(strip(run.stdout), "\n")
             staged == SelectSeq(lines,
                           LAMBDA line : line # <<>> /\ line[1] \in {"M", "A", "D", "R", "C"})
         IN  [n \in 1..Len(staged) |-> strip(staged[n])]

\* review_staged_changes: the git calls it makes, in order, and its value.
\* env holds what each git command does when it is run.
review_staged_changes(env) ==
    LET rev_parse == GitCall(<<"rev-parse", "--git-dir">>, env.recheck)
        diff_cached == GitCall(<<"diff", "--cached">>, env.diff_cached)
        porcelain == GitCall(<<"status", "--porcelain">>, env.status_porcelain)
        short == GitCall(<<"status", "--short">>, env.status_short)
        diff == get_staged_changes(diff_cached.returned)
        analysis == analyze_diff(diff)
    IN  IF ~check_git_repository(rev_parse.returned)
        THEN [calls |-> <<rev_parse>>, ret |-> [error |-> Chars("Not in a Git repository")]]
        ELSE IF diff.is_none \/ diff.text = <<>>
        THEN [calls |-> <<rev_parse, diff_cached>>,
              ret |-> [error |-> Chars("No staged changes. Use \"git add\" first.")]]
        ELSE [calls |-> <<rev_parse, diff_cached, porcelain, short>>,
              ret |-> [status |-> get_status(porcelain.returned),
                       staged_files |-> StagedFiles(short.returned),
                       diff |-> diff.text,
                       analysis |-> analysis,
                       summary |-> [files_changed |-> Len(analysis.files),
                                    additions |-> analysis.additions,
                                    deletions |-> analysis.deletions]]]

\* ', '.join(files)
RECURSIVE JoinComma(_)
JoinComma(files) ==
    IF files = <<>> THEN <<>>
    ELSE IF Len(files) = 1 THEN files[1]
    ELSE files[1] \o Chars(", ") \o JoinComma(Tail(files))

\* The message generate_commit_message builds (lines 251-285).
CommitMessage(analysis, status) ==
    LET files_changed == analysis.files
        num_files == Len(files_changed)
        change_type == IF status.added # <<>> THEN "Add"
                       ELSE IF status.deleted # <<>> THEN "Remove"
                       ELSE "Update"
        summary == Chars(change_type) \o <<" ">>
                   \o (IF num_files = 1 THEN files_changed[1]
                       ELSE IF num_files <= 3 THEN JoinComma(files_changed)
                       ELSE Decimal(num_files) \o Chars(" files"))
        listed == SubSeq(files_changed, 1, min(5, num_files))
    IN  summary \o Chars("\n\n")
        \o Chars("What: Modified ") \o Decimal(num_files) \o Chars(" file(s)\n")
        \o Chars("Why: [TODO: Explain why this change is needed]\n")
        \o Chars("Changes: +") \o Decimal(analysis.additions)
        \o Chars(" -") \o Decimal(analysis.deletions) \o Chars(" lines\n\n")
        \o Chars("Files:\n")
        \o Flatten([n \in 1..Len(listed) |-> Chars("- ") \o listed[n] \o <<"\n">>])
        \o (IF num_files > 5
            THEN Chars("... and ") \o Decimal(num_files - 5) \o Chars(" more\n")
            ELSE <<>>)

\* generate_commit_message(context): its git calls and the string returned.
generate_commit_message(context, env) ==
    LET rev_parse == GitCall(<<"rev-parse", "--git-dir">>, env.recheck)
        changes == IF context = "staged"
                   THEN GitCall(<<"diff", "--cached">>, env.diff_cached)
                   ELSE GitCall(<<"diff">>, env.diff)
        diff == IF context = "staged" THEN get_staged_changes(changes.returned)
                ELSE [is_none |-> FALSE, text |-> changes.returned.stdout]
        porcelain == GitCall(<<"status", "--porcelain">>, env.status_porcelain)
        analysis == analyze_diff(diff)
    IN  IF ~check_git_repository(rev_parse.returned)
        THEN [calls |-> <<rev_parse>>, ret |-> Chars("Error: Not in a Git repository")]
        ELSE IF context = "staged" /\ (diff.is_none \/ diff.text = <<>>)
        THEN [calls |-> <<rev_parse, changes>>,
              ret |-> Chars("No staged changes to commit. Use 'git add' first.")]
        ELSE IF context # "staged" /\ (~changes.returned.success \/ diff.text = <<>>)
        THEN [calls |-> <<rev_parse, changes>>, ret |-> Chars("No changes found.")]
        ELSE IF Len(analysis.files) = 0
        THEN [calls |-> <<rev_parse, changes, porcelain>>, ret |-> Chars("No files changed")]
        ELSE [calls |-> <<rev_parse, changes, porcelain>>,
              ret |-> CommitMessage(analysis, get_status(porcelain.returned))]

(***************************************************************************)
(* helpers.py: main                                                        *)
(***************************************************************************)

\* `args.action != 'test'` (line 490)
NeedsRepository(action) == action # "test"

\* What the process has done when main ends.
Ended(calls, stderr_text, status, value) ==
    [git_calls |-> calls, stderr |-> stderr_text, exit_status |-> status, output |-> value]

\* The `test` action (lines 670-716): the branch names of test_contexts and
\* the analysis of sample_diff.
SelfTest ==
    [branches |-> [ctx \in test_contexts |-> suggest_branch_name(Chars(ctx))],
     analysis |-> LET analysis == analyze_diff(SampleDiff)
                  IN  [files |-> analysis.files,
                       additions |-> analysis.additions,
                       deletions |-> analysis.deletions]]

\* The dispatch on args.action (lines 499-716): the git calls of the action
\* and the value it prints, in the human or the JSON rendering.
Dispatch(arguments, env) ==
    IF arguments.action = "review-changes"
    THEN LET review == review_staged_changes(env)
         IN  IF "error" \in DOMAIN review.ret
             THEN Ended(review.calls, Chars("Error: ") \o review.ret.error, 1, review.ret)
             ELSE Ended(review.calls, <<>>, 0, review.ret)
    ELSE IF arguments.action = "generate-message"
    THEN LET generated ==
                 generate_commit_message(IF arguments.staged THEN "staged" ELSE "all", env)
         IN  Ended(generated.calls, <<>>, 0, [message |-> generated.ret])
    ELSE IF arguments.action = "suggest-branch"
    THEN Ended(<<>>, <<>>, 0, [branch_name |-> suggest_branch_name(arguments.context)])
    ELSE IF arguments.action = "analyze-history"
    THEN LET rev_parse == GitCall(<<"rev-parse", "--git-dir">>, env.recheck)
             log == GitCall(<<"log">>, env.log)
             in_repository == check_git_repository(rev_parse.returned)
         IN  Ended(IF in_repository THEN <<rev_parse, log>> ELSE <<rev_parse>>, <<>>, 0,
                   analyze_commit_history(in_repository, log.returned))
    ELSE IF arguments.action = "check-status"
    THEN LET porcelain == GitCall(<<"status", "--porcelain">>, env.status_porcelain)
         IN  Ended(<<porcelain>>, <<>>, 0, get_status(porcelain.returned))
    ELSE Ended(<<>>, <<>>, 0, SelfTest)

\* main: the repository check (lines 488-492), then the action.
main(arguments, env) ==
    LET rev_parse == GitCall(<<"rev-parse", "--git-dir">>, env.check)
    IN  IF NeedsRepository(arguments.action)
        THEN IF ~check_git_repository(rev_parse.returned)
             THEN Ended(<<rev_parse>>, Chars("Error: Not in a Git repository"), 1, NoCall)
             ELSE LET action == Dispatch(arguments, env)
                  IN  [action EXCEPT !.git_calls = <<rev_parse>> \o @]
        ELSE Dispatch(arguments, env)

(***************************************************************************)
(* The command lines main is started with and what git does when run       *)
(***************************************************************************)

Arguments(action, context, staged) ==
    [action |-> action, context |-> Chars(context), staged |-> staged]

\* --action is required and one of six; --context and --staged are read by
\* one action each.
CommandLines ==
    { Arguments("review-changes", "", FALSE),
      Arguments("generate-message", "", TRUE),
      Arguments("generate-message", "", FALSE),
      Arguments("suggest-branch", "", FALSE),
      Arguments("suggest-branch", "fix broken login button", FALSE),
      Arguments("analyze-history", "", FALSE),
      Arguments("check-status", "", FALSE),
      Arguments("test", "", FALSE),
      Arguments("test", "adding search feature", TRUE) }

\* A git command that fails: it exits with 128 and a message, it hangs
\* until the timeout, or git cannot be started.
Failures(message) ==
    { Completed(128, <<>>, Chars(message)),
      TimeoutExpired,
      Raised("[Errno 2] No such file or directory: 'git'") }

\* Where the process runs: inside the working tree of a repository, inside
\* a git directory (the `.git` directory or a bare repository), outside any.
Locations == {"work tree", "git dir", "outside"}

\* `git rev-parse --git-dir` succeeds wherever git finds a git directory.
RevParseProcs(location) ==
    IF location = "work tree" THEN {Completed(0, Chars(".git\n"), <<>>), TimeoutExpired}
    ELSE IF location = "git dir" THEN {Completed(0, Chars(".\n"), <<>>), TimeoutExpired}
    ELSE Failures("fatal: not a git repository (or any of the parent directories): .git")

\* Commands that read the working tree fail where there is none.
NeedsWorkTree == Failures("fatal: this operation must be run in a work tree")

\* A staged diff of two files.
TwoFileDiff ==
    DiffText(PatchLines("test.js", <<DiffLine("added", "+  return true;")>>)
             \o PatchLines("lib/util.py", <<DiffLine("deleted", "-  console.log('old');")>>))

\* `git diff` and `git diff --cached`: nothing, a diff, a diff cut short by
\* an error, or a failure.
DiffProcs ==
    { Completed(0, <<>>, <<>>),
      Completed(0, SampleDiff.text, <<>>),
      Completed(0, TwoFileDiff, <<>>),
      Completed(128, SampleDiff.text, Chars("fatal: unable to read 1234567")) }
    \cup Failures("fatal: unable to read tree")

\* `git status --porcelain` and `git status --short`: the same lines.
StatusProcs ==
    { Completed(0, <<>>, <<>>),
      Completed(0, PorcelainText(<< [code |-> " M", filename |-> "foo.py"],
                                    [code |-> "A ", filename |-> "bar.py"] >>), <<>>),
      Completed(0, PorcelainText(<< [code |-> "D ", filename |-> "old.py"],
                                    [code |-> "??", filename |-> "new.py"] >>), <<>>),
      Completed(0, PorcelainText(<< [code |-> "M ", filename |-> "bar.py"],
                                    [code |-> " M", filename |-> "foo.py"] >>), <<>>) }
    \cup Failures("fatal: Unable to create '.git/index.lock': File exists.")

LogProcs ==
    { Completed(0, <<>>, <<>>),
      Completed(0, LogText(<< [subject |-> "wip", files |-> 21],
                              [subject |-> "Add login", files |-> 0] >>), <<>>) }
    \cup Failures("fatal: your current branch 'main' does not have any commits yet")

\* A command the action never runs.
NotRun == [kind |-> "not run"]

\* What each git command does during one run of main, for the commands the
\* action can run.
Environments(arguments, location) ==
    LET runs(commands, procs) == IF arguments.action \in commands THEN procs ELSE {NotRun}
        with_check == {"review-changes", "generate-message", "analyze-history"}
        of_work_tree(procs) == IF location = "work tree" THEN procs ELSE NeedsWorkTree
    IN  [check : runs(with_check \cup {"suggest-branch", "check-status"},
                      RevParseProcs(location)),
         recheck : runs(with_check, RevParseProcs(location)),
         diff_cached : runs({"review-changes", "generate-message"}, DiffProcs),
         diff : runs({"generate-message"}, of_work_tree(DiffProcs)),
         status_porcelain :
             runs({"review-changes", "generate-message", "check-status"},
                  of_work_tree(StatusProcs)),
         status_short : runs({"review-changes"}, of_work_tree(StatusProcs)),
         log : runs({"analyze-history"}, LogProcs)]

(***************************************************************************)
(* SpecMain: one run of the git helper                                     *)
(***************************************************************************)

InitMain ==
    /\ AnalyzerIdle
    /\ diff_input = NoCall
    /\ diff_result = NoCall
    /\ status_run = NoCall
    /\ status_result = NoCall
    /\ BranchIdle
    /\ HistoryIdle
    /\ repository \in Locations
    /\ args \in CommandLines
    /\ git_calls = <<>>
    /\ stderr = <<>>
    /\ exit_status = <<>>
    /\ output = NoCall

\* main with args.action = action, run to its end.
Main(action) ==
    /\ exit_status = <<>>
    /\ args.action = action
    /\ \E env \in Environments(args, repository) :
          LET ended == main(args, env)
          IN  /\ git_calls' = ended.git_calls
              /\ stderr' = ended.stderr
              /\ exit_status' = <<ended.exit_status>>
              /\ output' = ended.output
    /\ UNCHANGED <<repository, args>>
    /\ UNCHANGED <<diff_input, diff_result, status_run, status_result>>
    /\ UNCHANGED <<branch_vars, history_vars>>
    /\ UNCHANGED analyzer_vars
    /\ UNCHANGED score_call

ReviewChanges == Main("review-changes")

GenerateMessage == Main("generate-message")

SuggestBranch == Main("suggest-branch")

AnalyzeHistory == Main("analyze-history")

CheckStatus == Main("check-status")

Test == Main("test")

NextMain ==
    \/ ReviewChanges
    \/ GenerateMessage
    \/ SuggestBranch
    \/ AnalyzeHistory
    \/ CheckStatus
    \/ Test

SpecMain == InitMain /\ [][NextMain]_vars

(***************************************************************************)
(* Properties of the readability score (SpecScore)                         *)
(***************************************************************************)

ScoreCalled == score_call # NoCall

\* C1: whatever the findings and the file length, the score that
\* _calculate_readability_score returns is an integer from 0 to 100.
C1_ScoreInRange ==
    ScoreCalled => score_call.score \in 0..100

\* C1 witness: the deductions exceed 100 and the score is floored at 0.
C1_Witness ==
    /\ ScoreCalled
    /\ score_call.total_lines >= 1
    /\ DeductIssues(100, issues) < 0
    /\ score_call.score = 0

CountOfType(issue_type) ==
    Cardinality({n \in 1..Len(issues) : issues[n].issue_type = issue_type})

KnownTypes ==
    {"cryptic_naming", "missing_comments", "insufficient_comments",
     "unexplained_jargon", "missing_documentation"}

OtherCount == Cardinality({n \in 1..Len(issues) : issues[n].issue_type \notin KnownTypes})

\* The deduction the claim states, from the number of findings per category.
WeightedDeduction ==
    3 * CountOfType("cryptic_naming")
    + 5 * CountOfType("missing_comments")
    + 10 * CountOfType("insufficient_comments")
    + 4 * CountOfType("unexplained_jargon")
    + 5 * CountOfType("missing_documentation")
    + 2 * OtherCount

C4_EmptyFileScoresZero ==
    (ScoreCalled /\ score_call.total_lines = 0) => score_call.score = 0

\* C4 witness: total_lines = 0 while the analyzer holds findings worth less
\* than 100 points.
C4_Witness ==
    /\ ScoreCalled
    /\ score_call.total_lines = 0
    /\ issues # <<>>
    /\ WeightedDeduction < 100
    /\ score_call.score = 0

(***************************************************************************)
(* Properties of analyze_file (Spec)                                       *)
(***************************************************************************)

\* C3 as stated: a report with zero findings has score 100.
C3_ZeroFindingsScore100 ==
    (IsReport(result) /\ result.issues_found = 0) => result.readability_score = 100

\* C3 amended: a report on a file of at least one line with zero findings
\* has score 100.
C3_ZeroFindingsNonEmptyScore100 ==
    (IsReport(result) /\ result.total_lines >= 1 /\ result.issues_found = 0)
        => result.readability_score = 100

\* C3 witness: a file with lines and no findings was analysed.
C3_Witness ==
    /\ IsReport(result)
    /\ result.total_lines >= 1
    /\ result.issues_found = 0
    /\ result.readability_score = 100

\* What a newly constructed analyzer of the same strictness returns for a file.
FreshResult(file) == analyze_file(<<>>, strictness, file).ret

\* C5: whatever calls came before, analyze_file returns what a fresh analyzer
\* returns for the same file and strictness.
C5_NoStateLeak ==
    result # NoCall => result = FreshResult(analyzed)

\* C5 witness: the analyzer held findings of an earlier call, the call before
\* this one ended in an error, and this call reports a different, shorter list.
C5_Witness ==
    /\ prev_issues # <<>>
    /\ prev_outcome = "error"
    /\ IsReport(result)
    /\ result.total_lines >= 1
    /\ result.issues_found < Len(prev_issues)

(***************************************************************************)
(* Properties of analyze_diff (SpecDiff)                                   *)
(***************************************************************************)

DiffCalled == diff_result # NoCall

\* The lines of the diff that begin with character c and are not one of the
\* `---`/`+++` file-header lines.
ChangeLines(c) ==
    {n \in 1..Len(diff_input.lines) :
        /\ diff_input.lines[n].text # <<>>
        /\ diff_input.lines[n].text[1] = c
        /\ diff_input.lines[n].kind \notin {"old_file", "new_file"}}

\* C6: additions is the number of lines that begin with `+`, deletions the
\* number that begin with `-`, the `+++`/`---` file-header lines alone
\* excluded; the self-test's sample diff gives 3 and 1.
C6_CountsByFirstCharacter ==
    DiffCalled =>
        /\ diff_result.additions = Cardinality(ChangeLines("+"))
        /\ diff_result.deletions = Cardinality(ChangeLines("-"))
        /\ diff_input = SampleDiff =>
              (diff_result.additions = 3 /\ diff_result.deletions = 1)

EmptyDiffInput == diff_input.is_none \/ diff_input.text = <<>>

\* C7: for every input the result holds the file list, the two counts and
\* their sum; for empty or None input the list is empty and all are zero.
C7_ReturnsCountsAndSum ==
    DiffCalled =>
        /\ DOMAIN diff_result = {"files", "additions", "deletions", "total_changes"}
        /\ diff_result.total_changes = diff_result.additions + diff_result.deletions
        /\ EmptyDiffInput =>
              /\ diff_result.files = <<>>
              /\ diff_result.additions = 0
              /\ diff_result.deletions = 0
              /\ diff_result.total_changes = 0

\* The destination paths of the `diff --git` lines, in order.
HeaderPaths ==
    LET headers == SelectSeq(diff_input.lines, LAMBDA l : l.kind = "git_header")
    IN  [n \in 1..Len(headers) |-> headers[n].path]

\* C8: the file list is the destination path of every `diff --git` line, its
\* leading `b/` alone removed, in the order of the lines.
C8_FilesAreDestinationPaths ==
    DiffCalled => diff_result.files = HeaderPaths

(***************************************************************************)
(* Properties of get_status (SpecStatus)                                   *)
(***************************************************************************)

StatusParsed == status_result # NoCall /\ status_run.success

StatusCategories == {"modified", "added", "deleted", "untracked"}

\* The category the rules give code XY, first match first.
CategoryOf(code) ==
    LET xy == Chars(code)
    IN  IF xy[1] = "M" \/ xy[2] = "M" THEN "modified"
        ELSE IF xy[1] = "A" THEN "added"
        ELSE IF xy[1] = "D" \/ xy[2] = "D" THEN "deleted"
        ELSE IF code = "??" THEN "untracked"
        ELSE "none"

EntriesIn(category) ==
    SelectSeq(status_run.entries, LAMBDA e : CategoryOf(e.code) = category)

\* C9: every entry is placed in the one category its code selects by the
\* first matching rule, and in none when no rule matches: each category
\* holds as many names as there are entries whose code selects it.
C9_FirstMatchingCategory ==
    StatusParsed =>
        \A category \in StatusCategories :
            Len(status_result[category]) = Len(EntriesIn(category))

\* C10: for every line `XY filename`, wherever it stands, the category that
\* XY selects records exactly `filename`: each category lists the filenames
\* of its entries, in output order.
C10_RecordsCodeAndFilename ==
    StatusParsed =>
        \A category \in StatusCategories :
            status_result[category] =
                [n \in 1..Len(EntriesIn(category)) |-> Chars(EntriesIn(category)[n].filename)]

(***************************************************************************)
(* Properties of analyze_commit_history (SpecHistory)                      *)
(***************************************************************************)

HistoryParsed == history_result # NoCall /\ "commits" \in DOMAIN history_result

\* The number of findings of a type that name the n-th commit record.
FindingsOf(n, type) ==
    Cardinality({k \in 1..Len(history_result.issues) :
                    /\ history_result.issues[k].commit = history_result.commits[n].hash
                    /\ history_result.issues[k].type = type})

\* The lower-cased subject matches one of `^wip$`, `^fix$`, `^update$`,
\* `^test$`, `^change`, `^temp`, `^asdf`, `^\.`.
MatchesVaguePattern(subject) ==
    \/ lower(subject) \in {Chars("wip"), Chars("fix"), Chars("update"), Chars("test")}
    \/ \E beginning \in {"change", "temp", "asdf", "."} :
           startswith(lower(subject), Chars(beginning))

\* C11: every commit record has exactly one vague_message finding when its
\* lower-cased subject matches a vague pattern and none otherwise; a logged
\* commit with subject `wip` has exactly one.
C11_OneVagueFindingPerVagueCommit ==
    HistoryParsed =>
        /\ \A n \in 1..Len(history_result.commits) :
              FindingsOf(n, "vague_message") =
                  IF MatchesVaguePattern(history_result.commits[n].message) THEN 1 ELSE 0
        /\ \A n \in 1..Len(log_run.log.commits) :
              log_run.log.commits[n].subject = "wip" =>
                  Cardinality({k \in 1..Len(history_result.issues) :
                      /\ history_result.issues[k].commit = SliceTo(Chars(CommitHashes[n]), 7)
                      /\ history_result.issues[k].type = "vague_message"}) = 1

\* C11 witness: a log with a `wip` commit that has its one vague_message
\* finding and a commit that is not vague and has none.
C11_Witness ==
    /\ HistoryParsed
    /\ \E n \in 1..Len(history_result.commits) :
          /\ history_result.commits[n].message = Chars("wip")
          /\ FindingsOf(n, "vague_message") = 1
    /\ \E n \in 1..Len(history_result.commits) :
          /\ history_result.commits[n].message = Chars("Add login")
          /\ FindingsOf(n, "vague_message") = 0

BranchCalled == branch_result # NoCall

BranchPrefixes == {"fix", "refactor", "test", "docs", "feature"}

\* The text before the first `/` of a result and the text after it.
PrefixOf(name) == split(name, "/")[1]

SlugOf(name) == SliceFrom(name, Len(PrefixOf(name)) + 1)

\* C13: for the empty context the result is the usage hint, which is not of
\* the form prefix/slug.
C13_EmptyContextGivesUsage ==
    (BranchCalled /\ branch_context = <<>>) =>
        /\ branch_result = UsageHint
        /\ ~contains(branch_result, <<"/">>)
        /\ \A prefix \in BranchPrefixes : ~startswith(branch_result, Chars(prefix))

\* C13 witness: suggest_branch_name was called with the empty context.
C13_Witness ==
    /\ BranchCalled
    /\ branch_context = <<>>
    /\ branch_result = UsageHint

\* Does the lower-cased context contain one of the keywords?
HasKeyword(context, keywords) ==
    \E keyword \in keywords : contains(lower(context), Chars(keyword))

\* The prefix by the precedence fix > refactor > test > docs, else feature.
ExpectedPrefix(context) ==
    IF HasKeyword(context, {"fix", "bug", "error", "issue", "broken"}) THEN "fix"
    ELSE IF HasKeyword(context, {"refactor", "cleanup", "improve", "simplify"}) THEN "refactor"
    ELSE IF HasKeyword(context, {"test", "testing"}) THEN "test"
    ELSE IF HasKeyword(context, {"doc", "docs", "documentation", "readme"}) THEN "docs"
    ELSE "feature"

\* C14: for every non-empty context the result begins with one of the five
\* prefixes and a `/`: the prefix of the first class, in the order fix,
\* refactor, test, docs, of which the lower-cased context contains a
\* keyword, and feature when it contains none.
C14_PrefixByPrecedence ==
    (BranchCalled /\ branch_context # <<>>) =>
        /\ contains(branch_result, <<"/">>)
        /\ PrefixOf(branch_result) \in {Chars(prefix) : prefix \in BranchPrefixes}
        /\ PrefixOf(branch_result) = Chars(ExpectedPrefix(branch_context))

\* C14 witness: a context with keywords of the classes refactor, test and
\* docs and none of fix gets refactor.
C14_Witness ==
    /\ BranchCalled
    /\ HasKeyword(branch_context, {"refactor"})
    /\ HasKeyword(branch_context, {"testing"})
    /\ HasKeyword(branch_context, {"readme"})
    /\ PrefixOf(branch_result) = Chars("refactor")

\* The tokens of the lower-cased context that are no stop words and are
\* longer than two characters.
KeptTokens(context) ==
    SelectSeq(split_whitespace(lower(context)),
              LAMBDA token : Len(token) >= 3 /\ token \notin {Chars(w) : w \in remove_words})

\* A token without the characters outside [a-z0-9-].
CleanToken(token) ==
    SelectSeq(token, LAMBDA c : c \in CharSet("abcdefghijklmnopqrstuvwxyz0123456789-"))

\* The first five kept tokens, cleaned, with a hyphen between neighbours.
ExpectedSlug(context) ==
    LET kept == KeptTokens(context)
    IN  Flatten([n \in 1..min(5, Len(kept)) |->
                    (IF n = 1 THEN <<>> ELSE <<"-">>) \o CleanToken(kept[n])])

\* C15: for every non-empty context the result is prefix/slug with the slug
\* built from the first five kept tokens; `fix broken login button` gives
\* `fix/broken-login-button`.
C15_SlugFromKeptTokens ==
    (BranchCalled /\ branch_context # <<>>) =>
        /\ SlugOf(branch_result) = ExpectedSlug(branch_context)
        /\ branch_result = PrefixOf(branch_result) \o <<"/">> \o ExpectedSlug(branch_context)
        /\ branch_context = Chars("fix broken login button")
              => branch_result = Chars("fix/broken-login-button")

\* C15 witness: a context with more than five kept tokens, cut to five.
C15_Witness ==
    /\ BranchCalled
    /\ Len(KeptTokens(branch_context)) > 5
    /\ count(SlugOf(branch_result), <<"-">>) = 4
    /\ SlugOf(branch_result) # <<>>

(***************************************************************************)
(* Properties of main and run_git_command (SpecMain)                       *)
(***************************************************************************)

MainEnded == exit_status # <<>>

\* C16: for every action but `test`, a process that is not inside a git
\* working tree ends with status 1 and an error on the error stream, having
\* run nothing but the repository check; the `test` action ends with status
\* 0 and its results wherever it runs.
C16_RequiresWorkingTree ==
    MainEnded =>
        /\ (args.action # "test" /\ repository # "work tree") =>
              /\ exit_status = <<1>>
              /\ stderr = Chars("Error: Not in a Git repository")
              /\ Len(git_calls) = 1
              /\ output = NoCall
        /\ args.action = "test" =>
              /\ exit_status = <<0>>
              /\ stderr = <<>>
              /\ git_calls = <<>>
              /\ output = SelfTest

\* C17: every call of run_git_command returns a tuple: for a completed run
\* (exit status is 0, stdout, stderr), for a timeout (False, "", "Command
\* timed out"), for another exception (False, "", message); a run that did
\* not complete has success False and an empty stdout.
C17_RunGitCommandAlwaysReturns ==
    \A n \in 1..Len(git_calls) :
        LET proc == git_calls[n].proc
            returned == git_calls[n].returned
        IN  /\ DOMAIN returned = {"success", "stdout", "stderr"}
            /\ proc.kind = "completed" =>
                  /\ returned.success = (proc.returncode = 0)
                  /\ returned.stdout = proc.stdout
                  /\ returned.stderr = proc.stderr
            /\ proc.kind = "timeout" =>
                  returned = [success |-> FALSE, stdout |-> <<>>,
                              stderr |-> Chars("Command timed out")]
            /\ proc.kind = "exception" =>
                  returned = [success |-> FALSE, stdout |-> <<>>, stderr |-> proc.message]
            /\ proc.kind # "completed" => (~returned.success /\ returned.stdout = <<>>)

\* C17 witness: a run of main in which one git command completed with
\* output and a later one timed out.
C17_Witness ==
    /\ MainEnded
    /\ \E n \in 1..Len(git_calls) :
          /\ git_calls[n].proc.kind = "completed"
          /\ git_calls[n].returned.success
          /\ git_calls[n].returned.stdout # <<>>
          /\ \E k \in (n + 1)..Len(git_calls) :
                /\ git_calls[k].proc.kind = "timeout"
                /\ ~git_calls[k].returned.success
                /\ git_calls[k].returned.stderr = Chars("Command timed out")

\* The value of an operation that reports an error.
IsErrorResult(value) ==
    \/ "error" \in DOMAIN value
    \/ "message" \in DOMAIN value /\ startswith(value.message, Chars("Error"))

\* C18: when a git invocation fails, the same command is not run again and
\* the operation ends in an error: the process exits with status 1 or the
\* value of the operation is an error result.
C18_FailedInvocationYieldsError ==
    MainEnded =>
        \A n \in 1..Len(git_calls) :
            ~git_calls[n].returned.success =>
                /\ \A k \in (n + 1)..Len(git_calls) :
                      git_calls[k].command # git_calls[n].command
                /\ exit_status = <<1>> \/ IsErrorResult(output)

(***************************************************************************)
(* Properties of analyze_file: errors and line numbers (Spec)              *)
(***************************************************************************)

\* The first of the three checks that the file fails, "none" if it passes.
FirstFailedCheck(file) ==
    IF ~file.exists THEN "File not found"
    ELSE IF \A ext \in DOMAIN SUPPORTED_EXTENSIONS : suffix(file.path) # Chars(ext)
    THEN "Unsupported file type"
    ELSE IF ~file.readable THEN "Could not read file"
    ELSE "none"

\* C19: a file that is missing, of an unsupported type or unreadable gives a
\* result that holds an `error` entry and nothing else, naming the first
\* check that fails in the order existence, extension, readability; the
\* findings the analyzer holds are those it held before the call.
C19_ErrorsAreStructured ==
    (result # NoCall /\ FirstFailedCheck(analyzed) # "none") =>
        /\ DOMAIN result = {"error"}
        /\ result.error[1] = FirstFailedCheck(analyzed)
        /\ issues = prev_issues

\* C19 witness: a missing file of an unsupported type is reported as not
\* found by an analyzer that holds findings of an earlier call.
C19_Witness ==
    /\ result # NoCall
    /\ ~analyzed.exists
    /\ suffix(analyzed.path) = Chars(".txt")
    /\ result = [error |-> <<"File not found", analyzed.path>>]
    /\ prev_issues # <<>>
    /\ issues = prev_issues

\* Does line n of the analysed file trigger this finding?
TriggeredBy(issue, n) ==
    LET line == analyzed.lines[n]
        among(found) == \E k \in 1..Len(found) : found[k] = issue
    IN  CASE issue.issue_type = "cryptic_naming" -> among(CrypticLineIssues(n, line))
          [] issue.issue_type = "unexplained_jargon" -> among(JargonLineIssues(n, line))
          [] issue.issue_type = "missing_documentation" -> DefinitionPatternMatches(line) > 0
          [] issue.issue_type = "missing_comments" ->
                 strip(line) # <<>> /\ ~IsCommentLine(strip(line))
          [] OTHER -> FALSE

\* C20: every finding of a report has line number 0 or a line number from 1
\* to the number of lines of the file; 0 is the line of insufficient-comments
\* findings only, and any other number is that of the line that triggers
\* the finding.
C20_LineNumbersInRange ==
    IsReport(result) =>
        \A k \in 1..Len(result.issues) :
            LET issue == result.issues[k]
            IN  /\ issue.line_num \in 0..result.total_lines
                /\ issue.line_num = 0 => issue.issue_type = "insufficient_comments"
                /\ issue.line_num # 0 => TriggeredBy(issue, issue.line_num)

\* C20 witness: a report with a finding at line 0 and a finding at the last
\* line of a file of more than one line.
C20_Witness ==
    /\ IsReport(result)
    /\ result.total_lines > 1
    /\ \E k \in 1..Len(result.issues) : result.issues[k].line_num = 0
    /\ \E k \in 1..Len(result.issues) : result.issues[k].line_num = result.total_lines

(***************************************************************************)
(* Properties of the comment scan (SpecScan)                               *)
(***************************************************************************)

\* The lines of the issues of one type, in the order of the report.
IssueLines(type) ==
    LET found == SelectSeq(issues, LAMBDA issue : issue.issue_type = type)
    IN  [k \in 1..Len(found) |-> found[k].line_num]

\* A line that is not blank and begins with `#`, `//`, `/*` or `*`.
BeginsComment(line) ==
    LET s == strip(line)
    IN  /\ s # <<>>
        /\ \/ s[1] \in {"#", "*"}
           \/ Len(s) >= 2 /\ s[1] = "/" /\ s[2] \in {"/", "*"}

\* A line that is neither blank nor a comment.
IsCode(line) == strip(line) # <<>> /\ ~BeginsComment(line)

\* The position of code line n in its run: the code lines up to n that no
\* comment line separates from n.
RunPosition(lines, n) ==
    Cardinality({m \in 1..n :
        IsCode(lines[m]) /\ \A k \in m..n : ~BeginsComment(lines[k])})

C21_WitnessBlank ==
    /\ IsReport(result)
    /\ strictness = "strict"
    /\ \E n \in 1..Len(analyzed.lines) : strip(analyzed.lines[n]) = <<>>
    /\ IssueLines("missing_comments") = <<13>>

\* C22: a report has one insufficient-comments finding, at line 0 and after
\* every missing-comments finding, when the file has a code line and five
\* times its comment lines are fewer than its code lines; it has none
\* otherwise; this is so at each strictness.
C22_InsufficientCommentsByRatio ==
    IsReport(result) =>
        LET lines == analyzed.lines
            comments == Cardinality({n \in 1..Len(lines) : BeginsComment(lines[n])})
            code == Cardinality({n \in 1..Len(lines) : IsCode(lines[n])})
            at(type) == {k \in 1..Len(issues) : issues[k].issue_type = type}
        IN  /\ IssueLines("insufficient_comments")
                  = (IF code >= 1 /\ 5 * comments < code THEN <<0>> ELSE <<>>)
            /\ \A k \in at("insufficient_comments") :
                  \A m \in at("missing_comments") : m < k

\* C22 witness: a file with one comment line and six code lines, and one
\* with 22 code lines whose finding follows two missing-comments findings.
C22_Witness ==
    /\ IsReport(result)
    /\ IssueLines("insufficient_comments") = <<0>>
    /\ \/ /\ Len(analyzed.lines) = 7
          /\ BeginsComment(analyzed.lines[1])
       \/ /\ strictness = "lenient"
          /\ Len(analyzed.lines) = 22

\* C22 witness of the boundary: one comment line and five code lines, a
\* ratio of 0.2, without the finding.
C22_WitnessBoundary ==
    /\ IsReport(result)
    /\ Len(analyzed.lines) = 6
    /\ BeginsComment(analyzed.lines[1])
    /\ \A n \in 2..6 : IsCode(analyzed.lines[n])
    /\ IssueLines("insufficient_comments") = <<>>

(***************************************************************************)
(* Properties of the jargon scan and of the documentation scan (SpecScan)  *)
(***************************************************************************)

\* The number of issues of a type at line n that quote `subject`.
IssuesAt(type, n, subject) ==
    Cardinality({k \in 1..Len(issues) :
        /\ issues[k].issue_type = type
        /\ issues[k].line_num = n
        /\ issues[k].subject = subject})

\* The text of a `#` or `//` comment line after its marker.
TextAfterMarker(line) == CommentText(strip(line))

ExplanationMarkers == {"=", " is ", " means ", ":"}

\* Should the jargon scan report `term` for this line?
JargonExpected(line, term) ==
    /\ IsHashOrSlashComment(strip(line))
    /\ WholeWordIn(lower(TextAfterMarker(line)), lower(Chars(term)))
    /\ \A marker \in ExplanationMarkers : ~contains(TextAfterMarker(line), Chars(marker))

Window(lines, n) == SubSeq(lines, n + 1, min(Len(lines), n + 10))

DocumentationMarkers == {"what:", "why:", "how:"}

\* The markers that none of the lines holds, case aside.
AbsentMarkers(window) ==
    {marker \in DocumentationMarkers :
        \A k \in 1..Len(window) : ~contains(lower(window[k]), Chars(marker))}

\* The number of missing-documentation issues at line n.
DocumentationIssuesAt(n) ==
    Cardinality({k \in 1..Len(issues) :
        issues[k].issue_type = "missing_documentation" /\ issues[k].line_num = n})

\* C24: for each line that matches a definition pattern, a report under
\* strict strictness has one missing-documentation finding per marker
\* absent from the 10 lines that follow the line; under lenient or standard
\* strictness it has one finding when the three markers are absent and none
\* when one is present.
C24_DocumentationByWindow ==
    IsReport(result) =>
        \A n \in 1..Len(analyzed.lines) :
            DefinitionPatternMatches(analyzed.lines[n]) > 0 =>
                LET absent == AbsentMarkers(Window(analyzed.lines, n))
                IN  DocumentationIssuesAt(n)
                        = (IF strictness = "strict" THEN Cardinality(absent)
                           ELSE IF absent = DocumentationMarkers THEN 1 ELSE 0)

\* C24 witness: under strict strictness, a definition with a marker 11
\* lines below it and three findings, followed by a definition with that
\* marker 10 lines below it and two findings, and a definition on the last
\* line with three.
C24_Witness ==
    /\ IsReport(result)
    /\ strictness = "strict"
    /\ Len(analyzed.lines) = 13
    /\ contains(lower(analyzed.lines[12]), Chars("why:"))
    /\ DocumentationIssuesAt(1) = 3
    /\ DocumentationIssuesAt(2) = 2
    /\ DocumentationIssuesAt(13) = 3

\* C24 witness under standard strictness: of two definitions the one with
\* no marker in its window has one finding, the other none.
C24_WitnessStandard ==
    /\ IsReport(result)
    /\ strictness = "standard"
    /\ Len(analyzed.lines) = 13
    /\ DocumentationIssuesAt(1) = 1
    /\ DocumentationIssuesAt(2) = 0

(***************************************************************************)
(* Properties of the cryptic-name scan (SpecScan)                          *)
(***************************************************************************)

\* The triple quote of the documentation block that is open after line n,
\* or <<>>: a block is opened by a line with a triple quote, on which it is
\* also closed if the quote is there twice, and it is closed by the next
\* line that holds the quote it was opened with.
RECURSIVE OpenAfter(_, _)
OpenAfter(lines, n) ==
    IF n = 0 THEN <<>>
    ELSE LET open == OpenAfter(lines, n - 1)
             line == lines[n]
             opening == IF contains(line, TripleDouble) THEN TripleDouble ELSE TripleSingle
         IN  IF open = <<>>
             THEN IF HasTripleQuote(line) /\ count(line, opening) < 2 THEN opening ELSE <<>>
             ELSE IF contains(line, open) THEN <<>> ELSE open

\* Is line n part of a documentation block?
InBlock(lines, n) == OpenAfter(lines, n - 1) # <<>> \/ HasTripleQuote(lines[n])

\* in_docstring of _check_cryptic_names after line n.
RECURSIVE InDocstringAfter(_, _)
InDocstringAfter(lines, n) ==
    IF n = 0 THEN FALSE
    ELSE LET in_docstring == InDocstringAfter(lines, n - 1)
         IN  IF HasTripleQuote(lines[n]) THEN DocstringFlagAfter(lines[n], in_docstring)
             ELSE in_docstring

\* The number of cryptic-naming issues at line n.
CrypticIssuesAt(n) ==
    Cardinality({k \in 1..Len(issues) :
        issues[k].issue_type = "cryptic_naming" /\ issues[k].line_num = n})

\* C25: a report has no cryptic-naming finding at a line that is part of a
\* documentation block, from the line that opens the block to the line that
\* closes it, nor at a line that is a `#` or `//` comment; and in_docstring
\* is false after a line that closes a block.
C25_DocumentationBlocksSkipped ==
    IsReport(result) =>
        \A n \in 1..Len(analyzed.lines) :
            LET lines == analyzed.lines
            IN  /\ (InBlock(lines, n) \/ IsHashOrSlashComment(strip(lines[n])))
                      => CrypticIssuesAt(n) = 0
                /\ (InBlock(lines, n) /\ OpenAfter(lines, n) = <<>>)
                      => ~InDocstringAfter(lines, n)

\* The case that refutes C25: inside a block opened with one triple quote, a
\* line with the other triple quote is followed by a line with a finding.
C25_FindingInsideBlock ==
    /\ IsReport(result)
    /\ \E n \in 2..Len(analyzed.lines) :
          /\ OpenAfter(analyzed.lines, n) = TripleDouble
          /\ contains(analyzed.lines[n - 1], TripleSingle)
          /\ CrypticIssuesAt(n) > 0

(***************************************************************************)
(* Properties of the commit records (SpecHistory)                          *)
(***************************************************************************)

\* The lines of the log text with at least four `|`-separated fields.
CommitLines(text) ==
    SelectSeq(split(text, "\n"), LAMBDA line : Len(split(line, "|")) >= 4)

\* C26: the commit records are those of the lines of the log text with at
\* least four fields, one per line and in their order, commits_analyzed is
\* the number of these lines, and the files-changed count of a record is
\* that of the stat line of its commit, 0 for a commit without one.
C26_OneRecordPerCommitLine ==
    HistoryParsed =>
        LET commit_lines == CommitLines(log_run.log.stdout)
            records == history_result.commits
        IN  /\ history_result.commits_analyzed = Len(commit_lines)
            /\ [n \in 1..Len(records) |-> records[n].hash]
                  = [n \in 1..Len(commit_lines) |-> SliceTo(split(commit_lines[n], "|")[1], 7)]
            /\ \A n \in 1..Len(records) :
                  records[n].files_changed = log_run.log.commits[n].files

\* The case that refutes C26: a log of two commits, the first without a
\* stat line, parsed as one record with the files-changed count 25.
C26_CommitLineTakenAsStats ==
    /\ HistoryParsed
    /\ Len(CommitLines(log_run.log.stdout)) = 2
    /\ log_run.log.commits[1].files = 0
    /\ history_result.commits_analyzed = 1
    /\ history_result.commits[1].files_changed = 25

(***************************************************************************)
(* Properties of the review of staged changes (SpecMain)                   *)
(***************************************************************************)

\* The review ran to its end and produced its report.
Reviewed ==
    /\ MainEnded
    /\ args.action = "review-changes"
    /\ "staged_files" \in DOMAIN output

\* What run_git_command returned for `git status --short` during the run.
ShortStatus ==
    LET n == CHOOSE n \in 1..Len(git_calls) : git_calls[n].command = <<"status", "--short">>
    IN  git_calls[n].returned

\* The lines of a status output whose first column is one of M, A, D, R, C.
LinesStagedIn(text) ==
    SelectSeq(split(text, "\n"),
              LAMBDA line : line # <<>> /\ line[1] \in {"M", "A", "D", "R", "C"})

\* C27: staged_files of a review holds the lines of `git status --short`
\* whose first column is one of M, A, D, R, C, in their order, and no other
\* line: none whose first column is a space or `?`, the first line included.
C27_StagedFilesByIndexColumn ==
    Reviewed =>
        output.staged_files =
            (IF ShortStatus.success THEN LinesStagedIn(ShortStatus.stdout) ELSE <<>>)

\* The case that refutes C27: the first line of the status output is ` M`
\* with a path, a file with unstaged changes only, and staged_files lists
\* it as `M` with the path.
C27_UnstagedFileListed ==
    /\ Reviewed
    /\ ShortStatus.success
    /\ startswith(ShortStatus.stdout, Chars(" M foo.py"))
    /\ output.staged_files[1] = Chars("M foo.py")

====
